---- MODULE Spec2Model ----
(***************************************************************************)
(* The view-cycling engine of the lightweight cycling dashboard:           *)
(* CycleManager (scripts/cycle-manager.js, the version with dynamic timing *)
(* support, lines 336-591), the browser timers it arms, the view-change    *)
(* callback it invokes, and the ranking loader of App (scripts/app.js)     *)
(* with the DataFetcher call history (scripts/data-fetcher.js); the Looker *)
(* loader of App and LookerManager.reload (scripts/looker-manager.js); and *)
(* the fetcher's error classifier, payload normalization and score        *)
(* sanitization; the ViewController's display (scripts/looker-manager.js)  *)
(* and App.start/stop as the page is hidden and shown.                     *)
(*                                                                         *)
(* Time is abstracted: an armed timer may fire at any moment, so intervalMs*)
(* and maxViewLoadTime are not state.  The 100 ms timer armed by           *)
(* pauseForViewLoad for a non-iframe view has an empty body and is not     *)
(* state either.                                                           *)
(***************************************************************************)
EXTENDS Integers, Sequences, FiniteSets, Bags, TLC

(* ------------------------------ bounds -------------------------------- *)

\* Timer ids the browser can hand out (an id is not reused while a field
\* still holds it).
MaxTimerId == 3

\* Fragments in the message of an error given to handleApiError.
MaxFragments == 2

\* Entries of the block a response array is made of.
MaxBlock == 2

\* Times the block is repeated in the response array.
MaxRepeats == 6

\* Latest reading of the clock.
MaxClock == 4

\* Raw scores are drawn up to this far from 0 and from
\* Number.MAX_SAFE_INTEGER, on both sides.
MaxScore == 30

\* Longest run of nextView calls the observation counters follow exactly.
MaxSteps == 5

\* Callback promises that may be in flight, still due to reject.
MaxPending == 1

\* Activations of the watched ranking view whose loads are followed.
MaxActivations == 2

\* fetchLeaderboard calls followed attempt by attempt.
MaxCalls == 2

(* --------------------------- program constants ------------------------ *)

\* AppState.views: one Looker iframe view followed by three ranking views.
views == << "looker", "ranking", "ranking", "ranking" >>

\* getViewCount()
ViewCount == Len(views)

\* The indices of the ranking views.
RankingIndices == { i \in 0..(ViewCount - 1) : views[i + 1] = "ranking" }

\* maxLoadAttempts of App.loadRankingView
maxLoadAttempts == 3

\* maxStuckCount of the cycling watchdog
maxStuckCount == 3

\* lastViewIndex before the watchdog's first tick
NeverObserved == -1

\* DataFetcher.maxRetries
maxRetries == 3

\* The milliseconds of delay(1000 * attempt) per attempt
BackoffUnit == 1000

\* null, for a timer field
NoTimer == 0

\* processPlayerData keeps the top 10 players: slice(0, 10)
TopPlayers == 10

TimerIds == 1..MaxTimerId

\* What one invocation of onViewChangeCallback can do: return (or return a
\* promise that resolves), throw synchronously, or return a promise that
\* rejects later.
CallbackOutcomes == {"ok", "throw", "reject"}

(* ------------------------------ state --------------------------------- *)

VARIABLES
    currentIndex,       \* CycleManager.currentIndex
    isRunning,          \* CycleManager.isRunning
    isPaused,           \* CycleManager.isPaused
    intervalId,         \* CycleManager.intervalId (NoTimer = null)
    viewReadyTimeout,   \* CycleManager.viewReadyTimeout (NoTimer = null)
    intervals,          \* interval timers armed in the browser
    timeouts,           \* one-shot safety timers armed in the browser
    pendingRejects,     \* callback promises whose .catch handler is still due
    callbackCalls,      \* callback invocations in the observed run
    runOutcomes,        \* what the callback did in the observed run
    lastOp,             \* the operation that produced this state
    lastCallback,       \* what the callback did in that operation ("none": not invoked)
    startIndex,         \* position at the start() that began the observed run
    steps,              \* nextView calls made while running, in the observed run
    advances,           \* ... of which made while running and not paused
    watched,            \* index of the ranking view whose loads are followed
    loads,              \* bag of its loadRankingView calls in flight
    activations,        \* its activations so far
    callHistory,        \* DataFetcher.callHistory entries for its leaderboardId
    rendered,           \* its loads that ended with the fetched ranking rendered
    anyFailure,         \* whether an attempt of one of its loads has failed
    lastObservedPosition,   \* WatchdogSample.lastObservedPosition
    consecutiveStuckCount,  \* WatchdogSample.consecutiveStuckCount
    placeholders,       \* error placeholders rendered for the watched view
    fetchCall,          \* the fetchLeaderboard call followed attempt by attempt
    currentViewIndex,   \* AppState.currentViewIndex
    classified,         \* the error handleApiError was given, and its answer
    payload,            \* the response processPlayerData was given, and its result
    looker,             \* LookerManager: its URL, the iframe's src, and the clock
    container,          \* what the watched view's ranking container shows
    lookerLoading,      \* whether a loadLookerView call is in flight
    sanitized,          \* the score sanitizeScore was given, and what came of it
    display,            \* ViewController: currentViewId, the views shown, and the
                        \* onViewChange calls that await their load
    app                 \* App: its components, and where start() and the page are

cmVars == << currentIndex, isRunning, isPaused, intervalId, viewReadyTimeout,
             intervals, timeouts, pendingRejects, callbackCalls, runOutcomes,
             lastCallback, currentViewIndex >>

obsVars == << startIndex, steps, advances >>

\* The manager's fields and the browser's timer table.
managerState == << currentIndex, isRunning, isPaused, intervalId,
                   viewReadyTimeout, intervals, timeouts >>

appVars == << watched, loads, activations, callHistory, rendered, anyFailure,
             placeholders, container, lookerLoading, display, app >>

wdVars == << lastObservedPosition, consecutiveStuckCount >>

vars == << currentIndex, isRunning, isPaused, intervalId, viewReadyTimeout,
           intervals, timeouts, pendingRejects, callbackCalls, runOutcomes,
           lastOp, lastCallback, startIndex, steps, advances,
           watched, loads, activations, callHistory, rendered, anyFailure,
           lastObservedPosition, consecutiveStuckCount, placeholders, fetchCall,
           currentViewIndex, classified, payload, looker, container,
           lookerLoading, sanitized, display, app >>

\* The inputs and results of the functions followed call by call.
pureVars == << classified, payload, looker, sanitized >>

\* null, for ViewController.currentViewId
NoView == -1

\* new ViewController(): initializeViews() finds the Looker view, the first
\* view, with class "active" in the page.  No onViewChange call is in flight.
NewViewController == [ currentViewId |-> 0, active |-> {0}, pending |-> {} ]

\* App.init() up to its call of start(): the components exist, the page is
\* visible.
Initialized == [ components |-> TRUE, starting |-> FALSE, hidden |-> FALSE ]

\* sanitizeScore has not been called yet.
NotSanitized ==
    [ called |-> FALSE,
      input |-> [ t |-> "undefined", hi |-> 0, n |-> 0, s |-> "" ],
      output |-> [ t |-> "undefined", hi |-> 0, n |-> 0, s |-> "" ],
      processed |-> << >> ]

\* No fetchLeaderboard call has been made yet.
NoCall == [ phase |-> "idle", attempt |-> 0, requests |-> 0,
            lastError |-> << >>, thrown |-> << >>, waits |-> << >> ]

\* handleApiError has not been called yet.
NotClassified ==
    [ message |-> << >>, called |-> FALSE,
      info |-> [type |-> "none", recoverable |-> FALSE, retryAfter |-> 0] ]

\* processPlayerData has not been called yet.
NotProcessed == [ response |-> << >>, called |-> FALSE, result |-> << >> ]

\* new LookerManager(): no URL yet (null is the empty URL here), an iframe
\* without src.  `now` is what Date.now() returns; stamped, previousSrc and
\* previousStamp remember the last two reloads.
NewLookerManager ==
    [ currentUrl |-> << >>, src |-> << >>, now |-> 1, stamped |-> 0,
      previousSrc |-> << >>, previousStamp |-> 0, reloads |-> 0 ]

(* ------------------ the cycle manager as a record --------------------- *)

\* The CycleManager instance, the browser's timer table and the callback's
\* side (its invocation count, its promises in flight) at the start of an
\* operation.
Self ==
    [ currentIndex |-> currentIndex, isRunning |-> isRunning,
      isPaused |-> isPaused, intervalId |-> intervalId,
      viewReadyTimeout |-> viewReadyTimeout,
      intervals |-> intervals, timeouts |-> timeouts,
      pendingRejects |-> pendingRejects, callbackCalls |-> callbackCalls,
      runOutcomes |-> runOutcomes, lastCallback |-> "none",
      currentViewIndex |-> currentViewIndex ]

Becomes(s) ==
    /\ currentIndex' = s.currentIndex
    /\ isRunning' = s.isRunning
    /\ isPaused' = s.isPaused
    /\ intervalId' = s.intervalId
    /\ viewReadyTimeout' = s.viewReadyTimeout
    /\ intervals' = s.intervals
    /\ timeouts' = s.timeouts
    /\ pendingRejects' = s.pendingRejects
    /\ callbackCalls' = s.callbackCalls
    /\ runOutcomes' = s.runOutcomes
    /\ lastCallback' = s.lastCallback
    /\ currentViewIndex' = s.currentViewIndex

\* Counters follow a run exactly up to MaxSteps and then stay at MaxSteps + 1.
Count(n) == IF n >= MaxSteps THEN MaxSteps + 1 ELSE n + 1

\* setInterval / setTimeout return an id that no live timer and no field holds.
FreshTimerId(s) ==
    LET used == s.intervals \cup s.timeouts \cup {s.intervalId, s.viewReadyTimeout}
        free == TimerIds \ used
    IN  CHOOSE id \in free : \A other \in free : id <= other

clearInterval(s, id) == [s EXCEPT !.intervals = @ \ {id}]

clearTimeout(s, id) == [s EXCEPT !.timeouts = @ \ {id}]

\* restartTimer() that arms a new interval without clearing the old one.
restartTimerKeepingOld(s) ==
    IF s.isRunning
    THEN LET id == FreshTimerId(s)
         IN  [s EXCEPT !.intervalId = id, !.intervals = @ \cup {id}]
    ELSE s

\* restartTimer() that arms a new interval only when the field holds none.
restartTimerIfNone(s) ==
    LET s1 == IF s.intervalId # NoTimer THEN clearInterval(s, s.intervalId) ELSE s
    IN  IF s1.isRunning /\ s.intervalId = NoTimer
        THEN LET id == FreshTimerId(s1)
             IN  [s1 EXCEPT !.intervalId = id, !.intervals = @ \cup {id}]
        ELSE s1

\* restartTimer(): clears the interval it knows (the field keeps the stale id),
\* and arms a new one only while running.
restartTimer(s) ==
    LET s1 == IF s.intervalId # NoTimer THEN clearInterval(s, s.intervalId) ELSE s
    IN  IF s1.isRunning
        THEN LET id == FreshTimerId(s1)
             IN  [s1 EXCEPT !.intervalId = id, !.intervals = @ \cup {id}]
        ELSE s1

\* onViewReady() that clears paused but forgets restartTimer().
onViewReadyNoRestart(s) ==
    LET s1 == IF s.viewReadyTimeout # NoTimer
              THEN [clearTimeout(s, s.viewReadyTimeout) EXCEPT !.viewReadyTimeout = NoTimer]
              ELSE s
    IN  [s1 EXCEPT !.isPaused = FALSE]

\* onViewReady() that restarts the interval timer whether paused or not.
onViewReadyAlwaysRestarts(s) ==
    LET s1 == IF s.viewReadyTimeout # NoTimer
              THEN [clearTimeout(s, s.viewReadyTimeout) EXCEPT !.viewReadyTimeout = NoTimer]
              ELSE s
    IN  restartTimer([s1 EXCEPT !.isPaused = FALSE])

\* onViewReady(): clears the safety timeout; resumes only if paused.
onViewReady(s) ==
    LET s1 == IF s.viewReadyTimeout # NoTimer
              THEN [clearTimeout(s, s.viewReadyTimeout) EXCEPT !.viewReadyTimeout = NoTimer]
              ELSE s
    IN  IF s1.isPaused
        THEN restartTimer([s1 EXCEPT !.isPaused = FALSE])
        ELSE s1

\* pauseForViewLoad() that pauses but arms no safety timeout.
pauseForViewLoadNoSafety(s, viewType) ==
    IF viewType = "looker"
    THEN LET s1 == [s EXCEPT !.isPaused = TRUE]
         IN  IF s1.intervalId # NoTimer
             THEN [clearInterval(s1, s1.intervalId) EXCEPT !.intervalId = NoTimer]
             ELSE s1
    ELSE s

\* pauseForViewLoad() that pauses for every view type.
pauseForViewLoadAlways(s, viewType) ==
    LET s1 == [s EXCEPT !.isPaused = TRUE]
        s2 == IF s1.intervalId # NoTimer
              THEN [clearInterval(s1, s1.intervalId) EXCEPT !.intervalId = NoTimer]
              ELSE s1
        id == FreshTimerId(s2)
    IN  [s2 EXCEPT !.viewReadyTimeout = id, !.timeouts = @ \cup {id}]

\* pauseForViewLoad() that pauses and arms the safety timeout but leaves the
\* interval timer running.
pauseForViewLoadKeepingInterval(s, viewType) ==
    IF viewType = "looker"
    THEN LET s1 == [s EXCEPT !.isPaused = TRUE]
             id == FreshTimerId(s1)
         IN  [s1 EXCEPT !.viewReadyTimeout = id, !.timeouts = @ \cup {id}]
    ELSE s

\* pauseForViewLoad(viewConfig): only an iframe view pauses the cycle.
pauseForViewLoad(s, viewType) ==
    IF viewType = "looker"
    THEN LET s1 == [s EXCEPT !.isPaused = TRUE]
             s2 == IF s1.intervalId # NoTimer
                   THEN [clearInterval(s1, s1.intervalId) EXCEPT !.intervalId = NoTimer]
                   ELSE s1
             id == FreshTimerId(s2)
         IN  [s2 EXCEPT !.viewReadyTimeout = id, !.timeouts = @ \cup {id}]
    ELSE s

\* AppState.setCurrentViewIndex(index) that keeps the index it has.
setCurrentViewIndexIgnored(s, index) == s

\* AppState.setCurrentViewIndex(index): an invalid index throws and changes
\* nothing; the manager only ever passes its own currentIndex.
setCurrentViewIndex(s, index) ==
    IF index >= 0 /\ index < Len(views) THEN [s EXCEPT !.currentViewIndex = index] ELSE s

\* `if (this.appState) this.appState.setCurrentViewIndex(this.currentIndex)`
UpdateAppState(s) == setCurrentViewIndex(s, s.currentIndex)

\* An increment that stops at the last view instead of wrapping.
NextIndexNoWrap(i) == IF i + 1 < ViewCount THEN i + 1 ELSE i

\* The index nextView() moves to.
NextIndex(i) == (i + 1) % ViewCount

\* this.onViewChangeCallback(view), seen from the caller.
InvokeCallback(s, outcome) ==
    [s EXCEPT !.callbackCalls = Count(@), !.lastCallback = outcome,
              !.runOutcomes = @ \cup {outcome}]

\* nextView() without the isPaused check.
nextViewIgnoringPause(s, outcome) ==
    IF ~s.isRunning
    THEN s
    ELSE LET s1 == UpdateAppState([s EXCEPT !.currentIndex = NextIndex(@)])
             s2 == pauseForViewLoad(s1, views[s1.currentIndex + 1])
             s3 == InvokeCallback(s2, outcome)
         IN  CASE outcome = "throw" -> onViewReady(s3)
               [] outcome = "reject" -> [s3 EXCEPT !.pendingRejects = @ + 1]
               [] OTHER -> s3

\* nextView() whose catch block only logs the callback's exception.
nextViewNoRecovery(s, outcome) ==
    IF ~s.isRunning
    THEN s
    ELSE IF s.isPaused
    THEN s
    ELSE LET s1 == UpdateAppState([s EXCEPT !.currentIndex = NextIndex(@)])
             s2 == pauseForViewLoad(s1, views[s1.currentIndex + 1])
             s3 == InvokeCallback(s2, outcome)
         IN  CASE outcome = "reject" -> [s3 EXCEPT !.pendingRejects = @ + 1]
               [] OTHER -> s3

\* nextView() without the isRunning check.
nextViewWhenStopped(s, outcome) ==
    IF s.isPaused
    THEN s
    ELSE LET s1 == UpdateAppState([s EXCEPT !.currentIndex = NextIndex(@)])
             s2 == pauseForViewLoad(s1, views[s1.currentIndex + 1])
             s3 == InvokeCallback(s2, outcome)
         IN  CASE outcome = "throw" -> onViewReady(s3)
               [] outcome = "reject" -> [s3 EXCEPT !.pendingRejects = @ + 1]
               [] OTHER -> s3

\* nextView() with a callback that behaves as `outcome`.  A synchronous throw
\* is caught and answered by onViewReady(); a rejection is answered later by
\* the .catch handler (CallbackRejected).
nextView(s, outcome) ==
    IF ~s.isRunning
    THEN s
    ELSE IF s.isPaused
    THEN s
    ELSE LET s1 == UpdateAppState([s EXCEPT !.currentIndex = NextIndex(@)])
             s2 == pauseForViewLoad(s1, views[s1.currentIndex + 1])
             s3 == InvokeCallback(s2, outcome)
         IN  CASE outcome = "throw" -> onViewReady(s3)
               [] outcome = "reject" -> [s3 EXCEPT !.pendingRejects = @ + 1]
               [] OTHER -> s3

\* start() that also goes back to the first view.
startFromFirstView(s) ==
    IF s.isRunning
    THEN s
    ELSE restartTimer([s EXCEPT !.isRunning = TRUE, !.isPaused = FALSE,
                                !.currentIndex = 0])

\* start() without the already-running check.
startAlways(s) == restartTimer([s EXCEPT !.isRunning = TRUE, !.isPaused = FALSE])

\* start() that sets the flags but forgets restartTimer().
startWithoutTimer(s) ==
    IF s.isRunning
    THEN s
    ELSE [s EXCEPT !.isRunning = TRUE, !.isPaused = FALSE]

\* start()
start(s) ==
    IF s.isRunning
    THEN s
    ELSE restartTimer([s EXCEPT !.isRunning = TRUE, !.isPaused = FALSE])

\* stop() that forgets the pending safety timeout.
stopKeepingSafetyTimer(s) ==
    IF ~s.isRunning
    THEN s
    ELSE LET s1 == [s EXCEPT !.isRunning = FALSE, !.isPaused = FALSE]
         IN  IF s1.intervalId # NoTimer
             THEN [clearInterval(s1, s1.intervalId) EXCEPT !.intervalId = NoTimer]
             ELSE s1

\* stop() that drops the interval id without clearing the timer.
stopKeepingInterval(s) ==
    IF ~s.isRunning
    THEN s
    ELSE LET s1 == [s EXCEPT !.isRunning = FALSE, !.isPaused = FALSE,
                             !.intervalId = NoTimer]
         IN  IF s1.viewReadyTimeout # NoTimer
             THEN [clearTimeout(s1, s1.viewReadyTimeout) EXCEPT !.viewReadyTimeout = NoTimer]
             ELSE s1

\* stop() that leaves isPaused as it was.
stopKeepingPaused(s) ==
    IF ~s.isRunning
    THEN s
    ELSE LET s1 == [s EXCEPT !.isRunning = FALSE]
             s2 == IF s1.intervalId # NoTimer
                   THEN [clearInterval(s1, s1.intervalId) EXCEPT !.intervalId = NoTimer]
                   ELSE s1
         IN  IF s2.viewReadyTimeout # NoTimer
             THEN [clearTimeout(s2, s2.viewReadyTimeout) EXCEPT !.viewReadyTimeout = NoTimer]
             ELSE s2

\* stop()
stop(s) ==
    IF ~s.isRunning
    THEN s
    ELSE LET s1 == [s EXCEPT !.isRunning = FALSE, !.isPaused = FALSE]
             s2 == IF s1.intervalId # NoTimer
                   THEN [clearInterval(s1, s1.intervalId) EXCEPT !.intervalId = NoTimer]
                   ELSE s1
         IN  IF s2.viewReadyTimeout # NoTimer
             THEN [clearTimeout(s2, s2.viewReadyTimeout) EXCEPT !.viewReadyTimeout = NoTimer]
             ELSE s2

\* setCurrentIndex(index) without the range check.
setCurrentIndexUnchecked(s, index) == UpdateAppState([s EXCEPT !.currentIndex = index])

\* setCurrentIndex(index): an out-of-range index is only logged.
setCurrentIndex(s, index) ==
    IF index >= 0 /\ index < ViewCount
    THEN UpdateAppState([s EXCEPT !.currentIndex = index])
    ELSE s

\* goToView(index): the callback is invoked outside any try/catch, after the
\* state change, so what it does cannot change the manager.
goToView(s, index, outcome) ==
    IF index >= 0 /\ index < ViewCount
    THEN InvokeCallback(setCurrentIndex(s, index), outcome)
    ELSE s

\* goToPrevious(): no running/paused check, no pause for the view.
goToPrevious(s, outcome) ==
    InvokeCallback(
        UpdateAppState([s EXCEPT !.currentIndex = (@ - 1 + ViewCount) % ViewCount]),
        outcome)

\* setInterval(intervalMs): stop() then start() while running.
\* setInterval() that only re-arms the interval timer instead of stop(); start().
setIntervalRestartOnly(s) == IF s.isRunning THEN restartTimer(s) ELSE s

setInterval(s) == IF s.isRunning THEN start(stop(s)) ELSE s

(* ----------------------- observation counters ------------------------- *)

\* The value of a counter that no longer follows the run.
Unobserved == MaxSteps + 1

\* A nextView call is counted while running, and counted as an advance when
\* the manager is also not paused.
ObserveNextView ==
    /\ startIndex' = startIndex
    /\ steps' = IF isRunning THEN Count(steps) ELSE steps
    /\ advances' = IF isRunning /\ ~isPaused THEN Count(advances) ELSE advances

\* start() on a stopped manager begins a new run at the current position.
ObserveRestart ==
    /\ startIndex' = currentIndex'
    /\ steps' = 0
    /\ advances' = 0

\* Navigation other than nextView ends the observed run.
ObserveEnd ==
    /\ startIndex' = startIndex
    /\ steps' = Unobserved
    /\ advances' = Unobserved

ObserveNothing == UNCHANGED << startIndex, steps, advances >>

\* The state `s` with the callback's record of a new run.
NewRun(s) == [s EXCEPT !.callbackCalls = 0, !.runOutcomes = {}]

\* The state `s` with the callback's record of a run that ended.
EndRun(s) == [s EXCEPT !.callbackCalls = Unobserved]

(* ------------------------ cycle manager actions ----------------------- *)

\* The state after `new CycleManager(views, intervalMs, callback, appState)`
\* and `new DataFetcher()`.
Constructed ==
    /\ currentIndex = 0
    /\ isRunning = FALSE
    /\ isPaused = FALSE
    /\ intervalId = NoTimer
    /\ viewReadyTimeout = NoTimer
    /\ intervals = {}
    /\ timeouts = {}
    /\ pendingRejects = 0
    /\ callbackCalls = 0
    /\ runOutcomes = {}
    /\ lastOp = "new"
    /\ lastCallback = "none"
    /\ startIndex = 0
    /\ steps = 0
    /\ advances = 0
    /\ loads = EmptyBag
    /\ activations = 0
    /\ callHistory = 0
    /\ rendered = 0
    /\ anyFailure = FALSE
    /\ lastObservedPosition = NeverObserved
    /\ consecutiveStuckCount = 0
    /\ placeholders = 0
    /\ fetchCall = NoCall
    /\ currentViewIndex = 0
    /\ classified = NotClassified
    /\ payload = NotProcessed
    /\ looker = NewLookerManager
    /\ sanitized = NotSanitized
    /\ display = NewViewController
    /\ app = Initialized
    /\ container = "blank"
    /\ lookerLoading = FALSE

Init == Constructed /\ watched = 1

\* cycleManager.start()
Start ==
    /\ lastOp' = "start"
    /\ IF isRunning
       THEN Becomes(start(Self)) /\ ObserveNothing
       ELSE Becomes(NewRun(start(Self))) /\ ObserveRestart
    /\ UNCHANGED appVars
    /\ UNCHANGED wdVars
    /\ UNCHANGED fetchCall
    /\ UNCHANGED pureVars

\* cycleManager.stop(); a stop() that follows a stop() is told apart.
Stop ==
    /\ lastOp' = IF lastOp \in {"stop", "stopAgain"} THEN "stopAgain" ELSE "stop"
    /\ Becomes(stop(Self))
    /\ ObserveNothing
    /\ UNCHANGED appVars
    /\ UNCHANGED wdVars
    /\ UNCHANGED fetchCall
    /\ UNCHANGED pureVars

\* A nextView() call by `op`, with a callback that does one of `outcomes`.
NextViewBy(op, outcomes) ==
    \E outcome \in outcomes :
        /\ outcome = "reject" => pendingRejects < MaxPending
        /\ lastOp' = op
        /\ Becomes(nextView(Self, outcome))
        /\ ObserveNextView

\* cycleManager.nextView() / goToNext(), called directly.
NextViewCall ==
    /\ NextViewBy("nextView", CallbackOutcomes)
    /\ UNCHANGED appVars
    /\ UNCHANGED wdVars
    /\ UNCHANGED fetchCall
    /\ UNCHANGED pureVars

\* An armed interval timer fires: its handler calls nextView() inside
\* try/catch.  The timer is periodic: it stays armed unless the handler
\* cleared it.
IntervalTick ==
    /\ intervals # {}
    /\ NextViewBy("intervalTick", CallbackOutcomes)
    /\ UNCHANGED appVars
    /\ UNCHANGED wdVars
    /\ UNCHANGED fetchCall
    /\ UNCHANGED pureVars

\* An armed safety timer fires and is spent: its handler calls onViewReady().
SafetyTimeout ==
    \E id \in timeouts :
        /\ lastOp' = "safetyTimeout"
        /\ Becomes(onViewReady(clearTimeout(Self, id)))
        /\ ObserveNothing
        /\ UNCHANGED appVars
        /\ UNCHANGED wdVars
        /\ UNCHANGED fetchCall
        /\ UNCHANGED pureVars

\* The view loader signals readiness: cycleManager.onViewReady().
SignalReady ==
    /\ lastOp' = "onViewReady"
    /\ Becomes(onViewReady(Self))
    /\ ObserveNothing
    /\ UNCHANGED appVars
    /\ UNCHANGED wdVars
    /\ UNCHANGED fetchCall
    /\ UNCHANGED pureVars

\* A callback promise rejects: the .catch handler of nextView() calls
\* onViewReady().
CallbackRejected ==
    /\ pendingRejects > 0
    /\ lastOp' = "callbackRejected"
    /\ Becomes(onViewReady([Self EXCEPT !.pendingRejects = @ - 1]))
    /\ ObserveNothing
    /\ UNCHANGED appVars
    /\ UNCHANGED wdVars
    /\ UNCHANGED fetchCall
    /\ UNCHANGED pureVars

\* cycleManager.setCurrentIndex(index)
SetCurrentIndex ==
    \E index \in -1..ViewCount :
        /\ lastOp' = IF index \in 0..(ViewCount - 1)
                      THEN "setCurrentIndex"
                      ELSE "setCurrentIndexOutOfRange"
        /\ Becomes(EndRun(setCurrentIndex(Self, index)))
        /\ ObserveEnd
        /\ UNCHANGED appVars
        /\ UNCHANGED wdVars
        /\ UNCHANGED fetchCall
        /\ UNCHANGED pureVars

\* cycleManager.goToView(index)
GoToView ==
    \E index \in -1..ViewCount, outcome \in CallbackOutcomes :
        /\ lastOp' = IF index \in 0..(ViewCount - 1)
                      THEN "goToView"
                      ELSE "goToViewOutOfRange"
        /\ Becomes(EndRun(goToView(Self, index, outcome)))
        /\ ObserveEnd
        /\ UNCHANGED appVars
        /\ UNCHANGED wdVars
        /\ UNCHANGED fetchCall
        /\ UNCHANGED pureVars

\* cycleManager.goToPrevious()
GoToPrevious ==
    \E outcome \in CallbackOutcomes :
        /\ lastOp' = "goToPrevious"
        /\ Becomes(EndRun(goToPrevious(Self, outcome)))
        /\ ObserveEnd
        /\ UNCHANGED appVars
        /\ UNCHANGED wdVars
        /\ UNCHANGED fetchCall
        /\ UNCHANGED pureVars

\* cycleManager.setInterval(intervalMs)
SetIntervalMs ==
    /\ lastOp' = "setInterval"
    /\ IF isRunning
       THEN Becomes(NewRun(setInterval(Self))) /\ ObserveRestart
       ELSE Becomes(setInterval(Self)) /\ ObserveNothing
    /\ UNCHANGED appVars
    /\ UNCHANGED wdVars
    /\ UNCHANGED fetchCall
    /\ UNCHANGED pureVars

Next ==
    \/ Start
    \/ Stop
    \/ NextViewCall
    \/ IntervalTick
    \/ SafetyTimeout
    \/ SignalReady
    \/ CallbackRejected
    \/ SetCurrentIndex
    \/ GoToView
    \/ GoToPrevious
    \/ SetIntervalMs

Spec == Init /\ [][Next]_vars

\* The timers' turn always comes: an armed timer eventually fires, and a
\* rejected promise's handler eventually runs.
Fairness ==
    /\ WF_vars(IntervalTick)
    /\ WF_vars(SafetyTimeout)
    /\ WF_vars(CallbackRejected)

\* The manager driven by its timers, its callback, the loader's signal and
\* start/stop/setInterval, with positions reached by nextView() alone.
LiveNext ==
    \/ Start
    \/ Stop
    \/ NextViewCall
    \/ IntervalTick
    \/ SafetyTimeout
    \/ SignalReady
    \/ CallbackRejected
    \/ SetIntervalMs

LiveSpec == Init /\ [][LiveNext]_vars /\ Fairness

(* -------------- a loader that never signals and never fails ----------- *)

\* setCurrentIndex(index) before start(), as the tests position the manager.
SetupIndex ==
    /\ ~isRunning
    /\ SetCurrentIndex

\* The interval timer fires; the callback returns normally or throws.
QuietTick ==
    /\ intervals # {}
    /\ NextViewBy("intervalTick", {"ok", "throw"})
    /\ UNCHANGED appVars
    /\ UNCHANGED wdVars
    /\ UNCHANGED fetchCall
    /\ UNCHANGED pureVars

NoReadyNext ==
    \/ SetupIndex
    \/ Start
    \/ QuietTick
    \/ SafetyTimeout

\* onViewReady() is called by nobody but the safety timer.
NoReadySpec ==
    /\ Init
    /\ [][NoReadyNext]_vars
    /\ WF_vars(QuietTick)
    /\ WF_vars(SafetyTimeout)

(* ------------------- App: the ranking view loader --------------------- *)

\* A loadRankingView call in flight: its loadAttempts, and whether it awaits
\* checkNetworkStatus() ("check") or fetchLeaderboard() ("fetch").
LoadStates == [ loadAttempts : 1..maxLoadAttempts, phase : {"check", "fetch"} ]

\* fetchLeaderboard() that answers from an earlier result once it has one.
fetchLeaderboardCached(history) == IF history > 0 THEN history ELSE history + 1

\* fetchLeaderboard(leaderboardId) records the call in callHistory before its
\* first request; every call goes to the network.
fetchLeaderboard(history) == history + 1

Tracked(n) == IF n > MaxActivations THEN MaxActivations + 1 ELSE n

\* App.onViewChange(view) for the view nextView() moved to: a ranking view
\* starts loadRankingView (loadAttempts = 1, loading state shown, then the
\* network check is awaited).  Loads are followed for the watched view, and
\* so is what they render into its container.
BeginLoad(s) ==
    IF s.lastCallback # "none" /\ s.currentIndex = watched
    THEN /\ activations' = Tracked(activations + 1)
         /\ loads' = IF activations < MaxActivations
                     THEN loads (+) SetToBag({[loadAttempts |-> 1, phase |-> "check"]})
                     ELSE loads
         /\ container' = IF activations < MaxActivations THEN "loading" ELSE container
    ELSE UNCHANGED << activations, loads, container >>

\* The interval timer fires with App.onViewChange as the callback.
AppIntervalTick ==
    /\ intervals # {}
    /\ NextViewBy("intervalTick", {"ok"})
    /\ BeginLoad(nextView(Self, "ok"))
    /\ UNCHANGED << watched, callHistory, rendered, anyFailure, placeholders,
                    lookerLoading, display, app >>
    /\ UNCHANGED wdVars
    /\ UNCHANGED fetchCall
    /\ UNCHANGED pureVars

\* A catch block that gives up on the last attempt without rendering the
\* error state.
FailAttemptRethrows(l, shown) ==
    /\ anyFailure' = TRUE
    /\ placeholders' = placeholders
    /\ container' = shown
    /\ loads' = IF l.loadAttempts >= maxLoadAttempts
                THEN loads (-) SetToBag({l})
                ELSE (loads (-) SetToBag({l}))
                     (+) SetToBag({[loadAttempts |-> l.loadAttempts + 1, phase |-> "check"]})

\* A catch block that starts the attempt again without counting it.
FailAttemptUncounted(l, shown) ==
    /\ anyFailure' = TRUE
    /\ placeholders' = placeholders
    /\ container' = shown
    /\ loads' = (loads (-) SetToBag({l}))
                (+) SetToBag({[loadAttempts |-> l.loadAttempts, phase |-> "check"]})

\* The catch block of loadRankingView, entered with the container showing
\* `shown`: the last attempt renders the error state over it and returns; an
\* earlier one delays and loops.
FailAttempt(l, shown) ==
    /\ anyFailure' = TRUE
    /\ container' = IF l.loadAttempts >= maxLoadAttempts THEN "error" ELSE shown
    /\ placeholders' = IF l.loadAttempts >= maxLoadAttempts
                       THEN placeholders + 1
                       ELSE placeholders
    /\ loads' = IF l.loadAttempts >= maxLoadAttempts
                THEN loads (-) SetToBag({l})
                ELSE (loads (-) SetToBag({l}))
                     (+) SetToBag({[loadAttempts |-> l.loadAttempts + 1, phase |-> "check"]})

\* checkNetworkStatus() answers: online, and fetchLeaderboard is called (it
\* records the call in callHistory first); or offline, and the attempt fails
\* without a fetch.
LoadCheckNetwork ==
    \E l \in BagToSet(loads), isOnline \in BOOLEAN :
        /\ l.phase = "check"
        /\ lastOp' = "checkNetworkStatus"
        /\ IF isOnline
           THEN /\ callHistory' = fetchLeaderboard(callHistory)
                /\ loads' = (loads (-) SetToBag({l}))
                            (+) SetToBag({[l EXCEPT !.phase = "fetch"]})
                /\ UNCHANGED << anyFailure, placeholders, container >>
           ELSE /\ FailAttempt(l, container)
                /\ UNCHANGED callHistory
        /\ UNCHANGED << watched, activations, rendered, lookerLoading,
                        display, app >>
        /\ UNCHANGED cmVars
        /\ UNCHANGED obsVars
        /\ UNCHANGED wdVars
        /\ UNCHANGED fetchCall
        /\ UNCHANGED pureVars

\* What renderRanking(playerData, containerId, title) leaves in the container
\* when it returns false: the empty state for no data or no valid player,
\* the error state when rendering a spaceship threw.
ShownAfter(result) ==
    CASE result = "empty" -> "empty"
      [] result = "renderFailed" -> "error"
      [] OTHER -> container

\* fetchLeaderboard() settles: its data are rendered (renderRanking returns
\* true) and the load returns; or it throws, or renderRanking returns false
\* (no data, no valid player, or a rendering error), and the attempt fails.
LoadFetchSettle ==
    \E l \in BagToSet(loads),
       result \in {"rendered", "empty", "fetchFailed", "renderFailed"} :
        /\ l.phase = "fetch"
        /\ lastOp' = IF result = "empty" THEN "fetchSettledEmpty" ELSE "fetchSettled"
        /\ IF result = "rendered"
           THEN /\ loads' = loads (-) SetToBag({l})
                /\ rendered' = rendered + 1
                /\ container' = "ranking"
                /\ UNCHANGED << anyFailure, placeholders >>
           ELSE /\ FailAttempt(l, ShownAfter(result))
                /\ UNCHANGED rendered
        /\ UNCHANGED << watched, activations, callHistory, lookerLoading,
                        display, app >>
        /\ UNCHANGED cmVars
        /\ UNCHANGED obsVars
        /\ UNCHANGED wdVars
        /\ UNCHANGED fetchCall
        /\ UNCHANGED pureVars

AppNext ==
    \/ Start
    \/ AppIntervalTick
    \/ SafetyTimeout
    \/ SignalReady
    \/ LoadCheckNetwork
    \/ LoadFetchSettle

AppInit == Constructed /\ watched \in RankingIndices

AppSpec == AppInit /\ [][AppNext]_vars

\* The ranking loads followed to their end: the network check answers, and
\* every fetchLeaderboard call settles, since each of its requests is
\* aborted after `timeout` ms and its delays are timers.
LoadLiveNext ==
    \/ Start
    \/ AppIntervalTick
    \/ SafetyTimeout
    \/ LoadCheckNetwork
    \/ LoadFetchSettle

LoadLiveSpec ==
    /\ Init
    /\ [][LoadLiveNext]_vars
    /\ WF_vars(LoadCheckNetwork)
    /\ WF_vars(LoadFetchSettle)

(* ------------------- App: the view shown on screen -------------------- *)

\* hideAllViews(): every active view is deactivated; currentViewId stays.
\* The class is removed half a transition (250 ms) later, which is taken as
\* done.
hideAllViews(d) == [d EXCEPT !.active = {}]

\* activateView(view, viewId)
activateView(d, viewId) == [d EXCEPT !.active = @ \cup {viewId}, !.currentViewId = viewId]

\* showView(viewId): nothing is done for the view currentViewId names;
\* otherwise the views are hidden and the view is activated.
showView(d, viewId) ==
    IF d.currentViewId = viewId THEN d ELSE activateView(hideAllViews(d), viewId)

\* ViewController.destroy(): the page keeps its classes.
destroyViewController(d) == [d EXCEPT !.currentViewId = NoView]

\* onViewChange(viewConfig) up to its await: the views are hidden and the
\* load is under way.  Calls in flight for the same view are followed as one.
beginViewChange(d, viewId) == [hideAllViews(d) EXCEPT !.pending = @ \cup {viewId}]

\* onViewChange(viewConfig) after its await: the load returned or threw, and
\* either way showView(viewConfig.id) is called; with the view controller
\* gone the call throws.
finishViewChange(d, viewId, components) ==
    IF components
    THEN [showView(d, viewId) EXCEPT !.pending = @ \ {viewId}]
    ELSE [d EXCEPT !.pending = @ \ {viewId}]

\* App.start() up to its await: onViewChange(initialView) is called for the
\* view appState.currentViewIndex names.  With appState gone, setRunning
\* throws and nothing else happens.
AppStartBy(op) ==
    /\ lastOp' = op
    /\ IF app.components
       THEN /\ display' = beginViewChange(display, currentViewIndex)
            /\ app' = [app EXCEPT !.starting = TRUE, !.hidden = FALSE]
       ELSE /\ display' = display
            /\ app' = [app EXCEPT !.hidden = FALSE]
    /\ UNCHANGED << watched, loads, activations, callHistory, rendered,
                    anyFailure, placeholders, container, lookerLoading >>
    /\ UNCHANGED cmVars
    /\ UNCHANGED obsVars
    /\ UNCHANGED wdVars
    /\ UNCHANGED fetchCall
    /\ UNCHANGED pureVars

\* App.init() calls start().
AppStart ==
    /\ lastOp = "new"
    /\ AppStartBy("appStart")

\* The initial onViewChange of App.start() is over: the view is shown and
\* cycleManager.start() is called.  If the application was stopped in the
\* meantime the components are gone and start() ends in an exception.
InitialViewSettles ==
    /\ app.starting
    /\ currentViewIndex \in display.pending
    /\ lastOp' = "appStarted"
    /\ display' = finishViewChange(display, currentViewIndex, app.components)
    /\ app' = [app EXCEPT !.starting = FALSE]
    /\ IF app.components
       THEN IF isRunning
            THEN Becomes(start(Self)) /\ ObserveNothing
            ELSE Becomes(NewRun(start(Self))) /\ ObserveRestart
       ELSE Becomes([Self EXCEPT !.lastCallback = lastCallback]) /\ ObserveNothing
    /\ UNCHANGED << watched, loads, activations, callHistory, rendered,
                    anyFailure, placeholders, container, lookerLoading >>
    /\ UNCHANGED wdVars
    /\ UNCHANGED fetchCall
    /\ UNCHANGED pureVars

\* The interval timer fires with App.onViewChange as the callback.
DisplayIntervalTick ==
    /\ intervals # {}
    /\ NextViewBy("intervalTick", {"ok"})
    /\ display' = IF nextView(Self, "ok").lastCallback # "none"
                  THEN beginViewChange(display, nextView(Self, "ok").currentIndex)
                  ELSE display
    /\ UNCHANGED << watched, loads, activations, callHistory, rendered,
                    anyFailure, placeholders, container, lookerLoading, app >>
    /\ UNCHANGED wdVars
    /\ UNCHANGED fetchCall
    /\ UNCHANGED pureVars

\* The load of an onViewChange call made by the cycle manager is over.
ViewChangeSettles ==
    \E viewId \in display.pending :
        /\ ~(app.starting /\ viewId = currentViewIndex)
        /\ lastOp' = "viewShown"
        /\ display' = finishViewChange(display, viewId, app.components)
        /\ UNCHANGED << watched, loads, activations, callHistory, rendered,
                        anyFailure, placeholders, container, lookerLoading, app >>
        /\ UNCHANGED cmVars
        /\ UNCHANGED obsVars
        /\ UNCHANGED wdVars
        /\ UNCHANGED fetchCall
        /\ UNCHANGED pureVars

\* The safety timer (maxViewLoadTime, 20 s) fires; the 500 ms of the Looker
\* load that began with the pause are over by then.
DisplaySafetyTimeout ==
    /\ \A viewId \in display.pending : views[viewId + 1] # "looker"
    /\ SafetyTimeout

DisplayNext ==
    \/ AppStart
    \/ InitialViewSettles
    \/ DisplayIntervalTick
    \/ ViewChangeSettles
    \/ DisplaySafetyTimeout

\* The application from init() on, with the views it shows followed.
DisplaySpec == Init /\ [][DisplayNext]_vars

(* ------------------- App: the page hidden and visible ----------------- *)

\* visibilitychange with document.hidden: App.stop() stops the cycle manager
\* and cleanup() destroys the components and sets every reference to them,
\* appState included, to null.
PageHidden ==
    /\ ~app.hidden
    /\ lastOp' = "pageHidden"
    /\ Becomes([stop(Self) EXCEPT !.lastCallback = lastCallback])
    /\ ObserveNothing
    /\ display' = IF app.components THEN destroyViewController(display) ELSE display
    /\ app' = [app EXCEPT !.components = FALSE, !.hidden = TRUE]
    /\ UNCHANGED << watched, loads, activations, callHistory, rendered,
                    anyFailure, placeholders, container, lookerLoading >>
    /\ UNCHANGED wdVars
    /\ UNCHANGED fetchCall
    /\ UNCHANGED pureVars

\* visibilitychange with the page visible again: App.start().
PageVisible ==
    /\ app.hidden
    /\ AppStartBy("pageVisible")

VisibilityNext ==
    \/ AppStart
    \/ InitialViewSettles
    \/ DisplayIntervalTick
    \/ ViewChangeSettles
    \/ DisplaySafetyTimeout
    \/ PageHidden
    \/ PageVisible

\* The application with the page hidden and shown again at any time; armed
\* timers fire and loads come to an end.
VisibilitySpec ==
    /\ Init
    /\ [][VisibilityNext]_vars
    /\ WF_vars(InitialViewSettles)
    /\ WF_vars(DisplayIntervalTick)
    /\ WF_vars(ViewChangeSettles)
    /\ WF_vars(DisplaySafetyTimeout)

(* -------------------- App: the Looker view loader --------------------- *)

\* App.onViewChange(view) for the Looker view: loadLookerView refreshes the
\* iframe and awaits delay(500).
BeginLookerLoad(s) ==
    lookerLoading' = IF s.lastCallback # "none" /\ views[s.currentIndex + 1] = "looker"
                     THEN TRUE
                     ELSE lookerLoading

\* The interval timer fires with App.onViewChange as the callback.
LookerIntervalTick ==
    /\ intervals # {}
    /\ NextViewBy("intervalTick", {"ok"})
    /\ BeginLookerLoad(nextView(Self, "ok"))
    /\ UNCHANGED << watched, loads, activations, callHistory, rendered,
                    anyFailure, placeholders, container, display, app >>
    /\ UNCHANGED wdVars
    /\ UNCHANGED fetchCall
    /\ UNCHANGED pureVars

\* A loadLookerView that, when its delay is over, clears the manager's
\* isPaused flag itself instead of calling onViewReady().
LookerLoadSettleResuming ==
    \E loaded \in BOOLEAN :
        /\ lookerLoading
        /\ lastOp' = IF loaded THEN "lookerLoaded" ELSE "lookerLoadFailed"
        /\ lookerLoading' = FALSE
        /\ isPaused' = FALSE
        /\ UNCHANGED << watched, loads, activations, callHistory, rendered,
                        anyFailure, placeholders, container, display, app >>
        /\ UNCHANGED << currentIndex, isRunning, intervalId, viewReadyTimeout,
                        intervals, timeouts, pendingRejects, callbackCalls,
                        runOutcomes, lastCallback, currentViewIndex >>
        /\ UNCHANGED obsVars
        /\ UNCHANGED wdVars
        /\ UNCHANGED fetchCall
        /\ UNCHANGED pureVars

\* The delay(500) of the loadLookerView call is over: the iframe check passes
\* and the load returns, or it fails, the Looker error is shown and
\* onViewChange catches the exception.  Either way the view is shown and the
\* cycle manager is not called.
LookerLoadSettle ==
    \E loaded \in BOOLEAN :
        /\ lookerLoading
        /\ lastOp' = IF loaded THEN "lookerLoaded" ELSE "lookerLoadFailed"
        /\ lookerLoading' = FALSE
        /\ UNCHANGED << watched, loads, activations, callHistory, rendered,
                        anyFailure, placeholders, container, display, app >>
        /\ UNCHANGED cmVars
        /\ UNCHANGED obsVars
        /\ UNCHANGED wdVars
        /\ UNCHANGED fetchCall
        /\ UNCHANGED pureVars

\* The safety timer (maxViewLoadTime, 20 s) fires; the 500 ms of the Looker
\* load that began with the pause are over by then.
LookerSafetyTimeout ==
    /\ ~lookerLoading
    /\ SafetyTimeout

LookerLoadNext ==
    \/ SetupIndex
    \/ Start
    \/ Stop
    \/ LookerIntervalTick
    \/ LookerLoadSettle
    \/ LookerSafetyTimeout

\* The manager cycling with App.onViewChange as its callback, the Looker
\* loads followed.
LookerLoadSpec == Init /\ [][LookerLoadNext]_vars

(* ----------------------- App: both view loaders ----------------------- *)

\* The interval timer fires with App.onViewChange as the callback: the view
\* nextView() moved to begins its load, a ranking load or a Looker load.
LoaderIntervalTick ==
    /\ intervals # {}
    /\ NextViewBy("intervalTick", {"ok"})
    /\ BeginLoad(nextView(Self, "ok"))
    /\ BeginLookerLoad(nextView(Self, "ok"))
    /\ UNCHANGED << watched, callHistory, rendered, anyFailure, placeholders,
                    display, app >>
    /\ UNCHANGED wdVars
    /\ UNCHANGED fetchCall
    /\ UNCHANGED pureVars

LoaderNext ==
    \/ Start
    \/ LoaderIntervalTick
    \/ LookerSafetyTimeout
    \/ LoadCheckNetwork
    \/ LoadFetchSettle
    \/ LookerLoadSettle

\* The manager cycling with App.onViewChange as its callback, the loads of
\* the Looker view and of the first ranking view followed.
LoaderSpec == Init /\ [][LoaderNext]_vars

(* ---------------------------- the watchdog ---------------------------- *)

\* The watchdog's forced recovery: the cycle is resumed whatever isPaused
\* says, through the manager's restartTimer().
recoverStuckCycling(s) == restartTimer([s EXCEPT !.isPaused = FALSE])

\* What a watchdog tick sees as stuck: running, and the position it saw last.
Stuck == isRunning /\ currentIndex = lastObservedPosition

\* Watchdog ticks since a forced recovery with no other operation between.
SinceRecovery == {"watchdogRecovery", "watchdogRecoveryAgain", "watchdogTickRecovered"}

\* The browser still has a timer id to hand out.
HasFreeTimerId ==
    Cardinality(intervals \cup timeouts \cup ({intervalId, viewReadyTimeout} \ {NoTimer}))
        < MaxTimerId

\* A watchdog tick that counts stuck positions but never resets the sample.
WatchdogTickNoReset ==
    /\ IF Stuck /\ consecutiveStuckCount + 1 >= maxStuckCount
       THEN /\ lastOp' = IF lastOp \in SinceRecovery
                         THEN "watchdogRecoveryAgain"
                         ELSE "watchdogRecovery"
            /\ Becomes(recoverStuckCycling(Self))
            /\ consecutiveStuckCount' = 0
            /\ lastObservedPosition' = lastObservedPosition
       ELSE /\ lastOp' = IF lastOp \in SinceRecovery
                         THEN "watchdogTickRecovered"
                         ELSE "watchdogTick"
            /\ Becomes(Self)
            /\ IF Stuck
               THEN /\ consecutiveStuckCount' = consecutiveStuckCount + 1
                    /\ lastObservedPosition' = lastObservedPosition
               ELSE /\ consecutiveStuckCount' = consecutiveStuckCount
                    /\ lastObservedPosition' = currentIndex
    /\ ObserveNothing
    /\ UNCHANGED appVars
    /\ UNCHANGED fetchCall
    /\ UNCHANGED pureVars

\* The watchdog timer fires.  A stuck position is counted, and at
\* maxStuckCount the recovery is forced and the count reset; a position that
\* moved, or a stopped manager, resets the sample to the current values.
WatchdogTick ==
    /\ IF Stuck /\ consecutiveStuckCount + 1 >= maxStuckCount
       THEN /\ lastOp' = IF lastOp \in SinceRecovery
                         THEN "watchdogRecoveryAgain"
                         ELSE "watchdogRecovery"
            /\ Becomes(recoverStuckCycling(Self))
            /\ consecutiveStuckCount' = 0
            /\ lastObservedPosition' = lastObservedPosition
       ELSE /\ lastOp' = IF lastOp \in SinceRecovery
                         THEN "watchdogTickRecovered"
                         ELSE "watchdogTick"
            /\ Becomes(Self)
            /\ IF Stuck
               THEN /\ consecutiveStuckCount' = consecutiveStuckCount + 1
                    /\ lastObservedPosition' = lastObservedPosition
               ELSE /\ consecutiveStuckCount' = 0
                    /\ lastObservedPosition' = currentIndex
    /\ ObserveNothing
    /\ UNCHANGED appVars
    /\ UNCHANGED fetchCall
    /\ UNCHANGED pureVars

WatchdogNext ==
    \/ HasFreeTimerId /\ Start
    \/ HasFreeTimerId /\ QuietTick
    \/ HasFreeTimerId /\ SignalReady
    \/ HasFreeTimerId /\ WatchdogTick
    \/ Stop
    \/ SafetyTimeout

WatchdogSpec == Init /\ [][WatchdogNext]_vars

(* --------------------------- the data fetcher ------------------------- *)

\* An error message is the sequence of its fragments, cut where
\* handleApiError looks: message.includes(x) is the presence of fragment x.
includes(message, fragment) == \E i \in DOMAIN message : message[i] = fragment

\* HTTP status codes a response may carry.
StatusCodes == {"401", "403", "404", "418", "429", "500", "502", "503"}

\* The messages of the errors makeApiCall() throws: the timeout it raises
\* itself, status errors, and what fetch() and response.json() throw.
ApiErrors ==
    { << "Request ", "timeout", " after 10000ms" >>,
      << "Failed to fetch" >>,
      << "NetworkError", " when attempting to fetch resource." >>,
      << "Unexpected token < in ", "JSON", " at position 0" >> }
    \cup { << "HTTP ", code, ": ", "statusText" >> : code \in StatusCodes }

\* The message of the aggregate error of fetchLeaderboard:
\* `Failed to fetch leaderboard after ${maxRetries} attempts: ${message}`.
AggregateMessage(message) ==
    << "Failed to fetch", " leaderboard after ", "3", " attempts: " >> \o message

\* handleApiError(error) that gives up on a rate-limited request.
handleApiErrorRateLimitFatal(message) ==
    CASE includes(message, "timeout") ->
            [type |-> "timeout", recoverable |-> TRUE, retryAfter |-> 5000]
      [] includes(message, "Failed to fetch") \/ includes(message, "NetworkError") ->
            [type |-> "network", recoverable |-> TRUE, retryAfter |-> 3000]
      [] includes(message, "ERR_INTERNET_DISCONNECTED") \/ includes(message, "offline") ->
            [type |-> "offline", recoverable |-> TRUE, retryAfter |-> 10000]
      [] includes(message, "404") ->
            [type |-> "not_found", recoverable |-> FALSE, retryAfter |-> 0]
      [] includes(message, "401") \/ includes(message, "403") ->
            [type |-> "auth", recoverable |-> FALSE, retryAfter |-> 0]
      [] includes(message, "429") ->
            [type |-> "rate_limit", recoverable |-> FALSE, retryAfter |-> 0]
      [] includes(message, "500") \/ includes(message, "502") \/ includes(message, "503") ->
            [type |-> "server_error", recoverable |-> TRUE, retryAfter |-> 15000]
      [] includes(message, "JSON") \/ includes(message, "parse") ->
            [type |-> "parse_error", recoverable |-> TRUE, retryAfter |-> 5000]
      [] OTHER ->
            [type |-> "unknown", recoverable |-> TRUE, retryAfter |-> 5000]

\* handleApiError(error): the first test that matches decides.  A retryAfter
\* of null is 0 here.
handleApiError(message) ==
    CASE includes(message, "timeout") ->
            [type |-> "timeout", recoverable |-> TRUE, retryAfter |-> 5000]
      [] includes(message, "Failed to fetch") \/ includes(message, "NetworkError") ->
            [type |-> "network", recoverable |-> TRUE, retryAfter |-> 3000]
      [] includes(message, "ERR_INTERNET_DISCONNECTED") \/ includes(message, "offline") ->
            [type |-> "offline", recoverable |-> TRUE, retryAfter |-> 10000]
      [] includes(message, "404") ->
            [type |-> "not_found", recoverable |-> FALSE, retryAfter |-> 0]
      [] includes(message, "401") \/ includes(message, "403") ->
            [type |-> "auth", recoverable |-> FALSE, retryAfter |-> 0]
      [] includes(message, "429") ->
            [type |-> "rate_limit", recoverable |-> TRUE, retryAfter |-> 30000]
      [] includes(message, "500") \/ includes(message, "502") \/ includes(message, "503") ->
            [type |-> "server_error", recoverable |-> TRUE, retryAfter |-> 15000]
      [] includes(message, "JSON") \/ includes(message, "parse") ->
            [type |-> "parse_error", recoverable |-> TRUE, retryAfter |-> 5000]
      [] OTHER ->
            [type |-> "unknown", recoverable |-> TRUE, retryAfter |-> 5000]

\* The start of fetchLeaderboard(): the loop begins at attempt 1.
beginFetch == [ phase |-> "attempt", attempt |-> 1, requests |-> 0,
                lastError |-> << >>, thrown |-> << >>, waits |-> << >> ]

\* makeApiCall() returned: the processed data are returned at once.
attemptSucceeded(f) == [f EXCEPT !.requests = @ + 1, !.phase = "returned"]

\* The catch block that gives up one attempt early.
attemptFailedOneShort(f, message) ==
    IF f.attempt >= maxRetries - 1
    THEN [f EXCEPT !.requests = @ + 1, !.lastError = message,
                   !.phase = "thrown", !.thrown = AggregateMessage(message)]
    ELSE [f EXCEPT !.requests = @ + 1, !.lastError = message,
                   !.phase = "waiting", !.waits = Append(@, BackoffUnit * f.attempt)]

\* The catch block that waits the same time after every failed attempt.
attemptFailedFixedDelay(f, message) ==
    IF f.attempt = maxRetries
    THEN [f EXCEPT !.requests = @ + 1, !.lastError = message,
                   !.phase = "thrown", !.thrown = AggregateMessage(message)]
    ELSE [f EXCEPT !.requests = @ + 1, !.lastError = message,
                   !.phase = "waiting", !.waits = Append(@, BackoffUnit)]

\* makeApiCall() threw `message`: the last attempt throws the aggregate
\* error at once, an earlier one awaits delay(1000 * attempt); `waits` keeps
\* the delays of the call.
attemptFailed(f, message) ==
    IF f.attempt = maxRetries
    THEN [f EXCEPT !.requests = @ + 1, !.lastError = message,
                   !.phase = "thrown", !.thrown = AggregateMessage(message)]
    ELSE [f EXCEPT !.requests = @ + 1, !.lastError = message,
                   !.phase = "waiting", !.waits = Append(@, BackoffUnit * f.attempt)]

\* The delay is over: the loop goes on to the next attempt.
delayElapsed(f) == [f EXCEPT !.phase = "attempt", !.attempt = @ + 1]

\* What a fetcher step leaves alone.
FetchFrame ==
    /\ UNCHANGED cmVars
    /\ UNCHANGED obsVars
    /\ UNCHANGED wdVars
    /\ UNCHANGED << watched, loads, activations, rendered, anyFailure,
                    placeholders, container, lookerLoading, display, app >>
    /\ UNCHANGED pureVars

\* dataFetcher.fetchLeaderboard(leaderboardId) is called: the call is
\* recorded and the first attempt is under way.
FetchLeaderboard ==
    /\ fetchCall.phase \notin {"attempt", "waiting"}
    /\ callHistory < MaxCalls
    /\ lastOp' = "fetchLeaderboard"
    /\ callHistory' = fetchLeaderboard(callHistory)
    /\ fetchCall' = beginFetch
    /\ FetchFrame

\* The attempt's makeApiCall() returns data.
ApiCallReturns ==
    /\ fetchCall.phase = "attempt"
    /\ lastOp' = "apiCallReturned"
    /\ fetchCall' = attemptSucceeded(fetchCall)
    /\ UNCHANGED callHistory
    /\ FetchFrame

\* The attempt's makeApiCall() throws.
ApiCallThrows ==
    \E message \in ApiErrors :
        /\ fetchCall.phase = "attempt"
        /\ lastOp' = "apiCallThrew"
        /\ fetchCall' = attemptFailed(fetchCall, message)
        /\ UNCHANGED callHistory
        /\ FetchFrame

\* The delay between two attempts is over.
DelayElapsed ==
    /\ fetchCall.phase = "waiting"
    /\ lastOp' = "delayElapsed"
    /\ fetchCall' = delayElapsed(fetchCall)
    /\ UNCHANGED callHistory
    /\ FetchFrame

FetchNext ==
    \/ FetchLeaderboard
    \/ ApiCallReturns
    \/ ApiCallThrows
    \/ DelayElapsed

FetchSpec == Init /\ [][FetchNext]_vars

(* -------------------------- the error classifier ---------------------- *)

\* The fragments handleApiError looks for.
KnownFragments ==
    { "timeout", "Failed to fetch", "NetworkError", "ERR_INTERNET_DISCONNECTED",
      "offline", "404", "401", "403", "429", "500", "502", "503", "JSON", "parse" }

\* What an error message is made of: the known fragments and text that
\* matches none of the tests.
Fragments == KnownFragments \cup { "HTTP ", "Invalid ", "Something went wrong" }

\* Error messages of up to MaxFragments fragments, the empty message included.
Messages == UNION { [1..n -> Fragments] : n \in 0..MaxFragments }

\* dataFetcher.handleApiError(error) is called with an error whose message
\* is `message`; one call is followed.
HandleApiError ==
    \E message \in Messages :
        /\ ~classified.called
        /\ lastOp' = "handleApiError"
        /\ classified' = [ message |-> message, called |-> TRUE,
                           info |-> handleApiError(message) ]
        /\ UNCHANGED << payload, looker, sanitized >>
        /\ UNCHANGED cmVars
        /\ UNCHANGED obsVars
        /\ UNCHANGED wdVars
        /\ UNCHANGED appVars
        /\ UNCHANGED fetchCall

ClassifierNext == HandleApiError

ClassifierSpec == Init /\ [][ClassifierNext]_vars

(* ------------------------- payload normalization --------------------- *)

\* JavaScript values of a payload entry's fields: undefined (the field is
\* absent), a number, a string.
\* A JavaScript value: its typeof `t`, the text `s` of a string, and the
\* number hi * Limb + n of a finite number, where hi and n are never of
\* opposite signs and n is less than Limb in magnitude.  For a number that is
\* not finite `s` says which one it is.
Limb == 2^30

Undefined == [ t |-> "undefined", hi |-> 0, n |-> 0, s |-> "" ]

Null == [ t |-> "object", hi |-> 0, n |-> 0, s |-> "null" ]

Num(n) == [ t |-> "number", hi |-> 0, n |-> n, s |-> "" ]

Big(hi, n) == [ t |-> "number", hi |-> hi, n |-> n, s |-> "" ]

Str(s) == [ t |-> "string", hi |-> 0, n |-> 0, s |-> s ]

NaN == [ t |-> "number", hi |-> 0, n |-> 0, s |-> "NaN" ]

Infinity == [ t |-> "number", hi |-> 1, n |-> 0, s |-> "Infinity" ]

NegInfinity == [ t |-> "number", hi |-> -1, n |-> 0, s |-> "-Infinity" ]

\* true, and an object such as {} or [].
True == [ t |-> "boolean", hi |-> 0, n |-> 1, s |-> "true" ]

EmptyObject == [ t |-> "object", hi |-> 0, n |-> 0, s |-> "{}" ]

\* Number.MAX_SAFE_INTEGER, 2^53 - 1.
MAX_SAFE_INTEGER == Big(2^23 - 1, Limb - 1)

\* isFinite(v) && !isNaN(v), for a value of type number.
IsFinite(v) == v.s = ""

\* a < b, for finite numbers.
LessThan(a, b) == a.hi < b.hi \/ (a.hi = b.hi /\ a.n < b.n)

\* Math.min(a, b) and Math.max(a, b), for finite numbers.
Min(a, b) == IF LessThan(b, a) THEN b ELSE a

Max(a, b) == IF LessThan(a, b) THEN b ELSE a

\* Truthiness: undefined, null, 0, NaN and "" are falsy.
Truthy(v) ==
    \/ v.t = "number" /\ v.s # "NaN" /\ (v.hi # 0 \/ v.n # 0)
    \/ v.t = "string" /\ v.s # ""
    \/ v.t = "boolean" /\ v.n # 0
    \/ v.t = "object" /\ v.s # "null"

\* a || b
Or(a, b) == IF Truthy(a) THEN a ELSE b

\* An entry of the response array with its fields under the aliases followed:
\* playerId and id of the identifier aliases; total (the first), score and
\* current_score (the last) of the score aliases.  The other aliases are
\* absent.  `object` is false for an entry that is null or not an object.
Entry(playerId, id, total, score, current_score) ==
    [ object |-> TRUE, playerId |-> playerId, id |-> id, total |-> total,
      score |-> score, current_score |-> current_score ]

NotAnObject ==
    [ object |-> FALSE, playerId |-> Undefined, id |-> Undefined,
      total |-> Undefined, score |-> Undefined, current_score |-> Undefined ]

\* player._id || player.player || player.playerId || player.id || ...
IdChain(player) == Or(Or(player.playerId, player.id), Undefined)

\* player.total || player.score || ... || player.current_score
ScoreChain(player) == Or(Or(player.total, player.score), player.current_score)

\* isValidPlayer(player): an identifier that is truthy, and a score chain
\* whose value is of type number.
isValidPlayer(player) ==
    /\ player.object
    /\ Truthy(IdChain(player))
    /\ ScoreChain(player).t = "number"

\* score.replace(/[^\d.-]/g, ''), on the strings drawn: what is left are the
\* digits, dots and minus signs.
StripNonNumeric(s) ==
    CASE s = "n/a" -> ""
      [] s = "abc" -> ""
      [] s = "12 pts" -> "12"
      [] s = "1,500" -> "1500"
      [] s = "1e999" -> "1999"
      [] s = "+7" -> "7"
      [] OTHER -> s

\* parseFloat(s), on what StripNonNumeric leaves of the strings drawn: the
\* longest numeric prefix, NaN when there is none.  2^53 is the first
\* integer above Number.MAX_SAFE_INTEGER.
ParseFloat(s) ==
    CASE s = "80" -> Num(80)
      [] s = "-3" -> Num(-3)
      [] s = "12" -> Num(12)
      [] s = "1500" -> Num(1500)
      [] s = "1999" -> Num(1999)
      [] s = "7" -> Num(7)
      [] s = "0" -> Num(0)
      [] s = "4-2" -> Num(4)
      [] s = "9007199254740991" -> MAX_SAFE_INTEGER
      [] s = "9007199254740992" -> Big(2^23, 0)
      [] OTHER -> NaN

\* sanitizeScore() that returns a finite number as it is.
sanitizeScoreNoClamp(v) ==
    CASE v = Null \/ v.t = "undefined" -> Num(0)
      [] v.t = "number" -> IF ~IsFinite(v) THEN Num(0) ELSE v
      [] v.t = "string" ->
            LET parsed == ParseFloat(StripNonNumeric(v.s))
            IN  IF ~IsFinite(parsed) THEN Num(0) ELSE parsed
      [] OTHER -> Num(0)

\* sanitizeScore(score): null and undefined are 0; a number that is not
\* finite is 0 and a finite one is clamped to 0..Number.MAX_SAFE_INTEGER; a
\* string is stripped and parsed, then treated the same; any other type is 0.
sanitizeScore(v) ==
    CASE v = Null \/ v.t = "undefined" -> Num(0)
      [] v.t = "number" ->
            IF ~IsFinite(v) THEN Num(0) ELSE Max(Num(0), Min(v, MAX_SAFE_INTEGER))
      [] v.t = "string" ->
            LET parsed == ParseFloat(StripNonNumeric(v.s))
            IN  IF ~IsFinite(parsed)
                THEN Num(0)
                ELSE Max(Num(0), Min(parsed, MAX_SAFE_INTEGER))
      [] OTHER -> Num(0)

\* extractScore(player)
extractScore(player) == sanitizeScore(Or(ScoreChain(player), Num(0)))

\* `player_${Date.now()}_${Math.random()...}`: some string.
GeneratedId == Str("player_generated")

\* String(playerId)
String(v) == IF v.t = "number" THEN ToString(v.n) ELSE v.s

\* .replace(/[^\w\-_.]/g, ''), on the identifiers drawn.
StripUnsafe(s) == CASE s = "<>" -> "" [] s = "<carol>" -> "carol" [] OTHER -> s

\* sanitizePlayerId(playerId)
sanitizePlayerId(v) ==
    IF ~Truthy(v)
    THEN GeneratedId
    ELSE IF StripUnsafe(String(v)) = ""
    THEN GeneratedId
    ELSE Str(StripUnsafe(String(v)))

\* extractPlayerId(player)
extractPlayerId(player) == sanitizePlayerId(IdChain(player))

\* Where .sort((a, b) => b.score - a.score) puts element i: after the
\* elements with a higher score and after the equal ones that came before it
\* (the sort is stable).
Rank(seq, i) ==
    Cardinality({ j \in DOMAIN seq : LessThan(seq[i].score, seq[j].score) })
    + Cardinality({ j \in DOMAIN seq : j <= i /\ seq[j].score = seq[i].score })

SortByScore(seq) ==
    [ k \in 1..Len(seq) |-> seq[CHOOSE i \in DOMAIN seq : Rank(seq, i) = k] ]

\* processPlayerData that forgets to sort.
processPlayerDataUnsorted(apiResponse) ==
    LET valid == SelectSeq(apiResponse, isValidPlayer)
        mapped == [ i \in 1..Len(valid) |->
                      [ playerId |-> extractPlayerId(valid[i]),
                        score |-> extractScore(valid[i]) ] ]
        top == SubSeq(mapped, 1, IF Len(mapped) < TopPlayers THEN Len(mapped) ELSE TopPlayers)
    IN  [ i \in 1..Len(top) |->
            [ playerId |-> top[i].playerId, score |-> top[i].score, position |-> i ] ]

\* processPlayerData(apiResponse) for an array response: filter, extract,
\* sort by score descending, keep the top 10, number the positions.  The
\* name field plays no part in any of it and is left out.
processPlayerData(apiResponse) ==
    LET valid == SelectSeq(apiResponse, isValidPlayer)
        mapped == [ i \in 1..Len(valid) |->
                      [ playerId |-> extractPlayerId(valid[i]),
                        score |-> extractScore(valid[i]) ] ]
        sorted == SortByScore(mapped)
        top == SubSeq(sorted, 1, IF Len(sorted) < TopPlayers THEN Len(sorted) ELSE TopPlayers)
    IN  [ i \in 1..Len(top) |->
            [ playerId |-> top[i].playerId, score |-> top[i].score, position |-> i ] ]

\* Entries a leaderboard response may carry.
SampleEntries ==
    { Entry(Str("alice"), Undefined, Undefined, Num(100), Undefined),
      Entry(Str("bob"), Undefined, Undefined, Num(50), Undefined),
      Entry(Undefined, Str("<carol>"), Num(50), Undefined, Undefined),
      Entry(Str("dave"), Undefined, Undefined, Num(0), Undefined),
      Entry(Str("erin"), Undefined, Undefined, Undefined, Num(0)),
      Entry(Str("frank"), Undefined, Undefined, Num(-5), Undefined),
      Entry(Str(""), Undefined, Undefined, Num(70), Undefined),
      Entry(Str("gina"), Undefined, Undefined, Str("80"), Undefined),
      Entry(Str("hank"), Undefined, Str("n/a"), Num(30), Undefined),
      Entry(Undefined, Num(7), Undefined, Num(20), Undefined),
      Entry(Str("<>"), Undefined, Num(10), Undefined, Undefined),
      NotAnObject }

\* The block repeated `n` times.
Repeated(block, n) ==
    [ i \in 1..(Len(block) * n) |-> block[((i - 1) % Len(block)) + 1] ]

\* Response arrays: a block of up to MaxBlock entries, repeated up to
\* MaxRepeats times.
Responses ==
    { Repeated(block, n) :
        block \in UNION { [1..k -> SampleEntries] : k \in 0..MaxBlock },
        n \in 1..MaxRepeats }

\* makeApiCall() returned the array `response` and fetchLeaderboard passes it
\* to processPlayerData; one call is followed.
ProcessPlayerData ==
    \E response \in Responses :
        /\ ~payload.called
        /\ lastOp' = "processPlayerData"
        /\ payload' = [ response |-> response, called |-> TRUE,
                        result |-> processPlayerData(response) ]
        /\ UNCHANGED << classified, looker, sanitized >>
        /\ UNCHANGED cmVars
        /\ UNCHANGED obsVars
        /\ UNCHANGED wdVars
        /\ UNCHANGED appVars
        /\ UNCHANGED fetchCall

PayloadNext == ProcessPlayerData

PayloadSpec == Init /\ [][PayloadNext]_vars

(* -------------------------- score sanitization ------------------------ *)

\* Number.MAX_SAFE_INTEGER + d, for d within one limb of it.
NearMaxSafe(d) ==
    IF d > 0 THEN Big(2^23, d - 1) ELSE Big(2^23 - 1, Limb - 1 + d)

\* Strings a score field may carry.
ScoreStrings ==
    { "80", "-3", "0", "n/a", "abc", "", "-", "12 pts", "1,500", "1e999", "+7",
      "4-2", "9007199254740991", "9007199254740992" }

\* Raw scores: the integers around 0 and around Number.MAX_SAFE_INTEGER, -2^53
\* and below, the numbers that are not finite, null, undefined, values of
\* other types, and strings.
RawScores ==
    { Num(n) : n \in (-MaxScore)..MaxScore }
    \cup { NearMaxSafe(d) : d \in (-MaxScore)..MaxScore }
    \cup { Big(-(2^23), -n) : n \in 0..MaxScore }
    \cup { NaN, Infinity, NegInfinity, Null, Undefined, True, EmptyObject }
    \cup { Str(s) : s \in ScoreStrings }

\* sanitizeScore(score) is called; and a response whose one entry carries
\* `score` goes through processPlayerData, as fetchLeaderboard returns it.
\* One call is followed.
SanitizeScore ==
    \E score \in RawScores :
        /\ ~sanitized.called
        /\ lastOp' = "sanitizeScore"
        /\ sanitized' =
              [ called |-> TRUE, input |-> score, output |-> sanitizeScore(score),
                processed |-> processPlayerData(
                    << Entry(Str("p1"), Undefined, Undefined, score, Undefined) >>) ]
        /\ UNCHANGED << classified, payload, looker >>
        /\ UNCHANGED cmVars
        /\ UNCHANGED obsVars
        /\ UNCHANGED wdVars
        /\ UNCHANGED appVars
        /\ UNCHANGED fetchCall

SanitizeNext == SanitizeScore

SanitizeSpec == Init /\ [][SanitizeNext]_vars

(* --------------------------- the Looker iframe ------------------------ *)

\* A URL is the sequence of its parts: the base, then "?" and the query
\* parameters separated by "&".
LookerUrls ==
    { << "https://lookerstudio.google.com/embed/reporting/abc123/page/def456" >>,
      << "https://lookerstudio.google.com/reporting/test123" >>,
      << "https://lookerstudio.google.com/embed/reporting/abc123/page/def456",
         "?", "param1=a", "&", "param2=b" >>,
      << "https://lookerstudio.google.com/reporting/test123", "?", "param1=a" >> }

\* addTimestampParameter(url) that returns the URL as it is.
addTimestampParameterNone(url, timestamp) == url

\* addTimestampParameter(url), with `timestamp` what Date.now() returned:
\* `${url}${separator}t=${timestamp}`.
addTimestampParameter(url, timestamp) ==
    url \o << IF includes(url, "?") THEN "&" ELSE "?", "t=", ToString(timestamp) >>

\* setUrl(url) with a valid URL.
setUrl(l, url) == [l EXCEPT !.currentUrl = url]

\* reload(): without a URL it returns false and leaves the iframe alone.
reload(l) ==
    IF l.currentUrl = << >>
    THEN l
    ELSE [l EXCEPT !.src = addTimestampParameter(l.currentUrl, l.now),
                   !.stamped = l.now,
                   !.previousSrc = l.src,
                   !.previousStamp = l.stamped,
                   !.reloads = IF @ < 2 THEN @ + 1 ELSE @]

\* What a step of the Looker manager leaves alone.
LookerFrame ==
    /\ UNCHANGED << classified, payload, sanitized >>
    /\ UNCHANGED cmVars
    /\ UNCHANGED obsVars
    /\ UNCHANGED wdVars
    /\ UNCHANGED appVars
    /\ UNCHANGED fetchCall

\* lookerManager.setUrl(lookerView.lookerUrl)
SetUrl ==
    \E url \in LookerUrls :
        /\ lastOp' = "setUrl"
        /\ looker' = setUrl(looker, url)
        /\ LookerFrame

\* The Looker view is activated: lookerManager.reload().
Reload ==
    /\ lastOp' = IF looker.currentUrl = << >> THEN "reloadFailed" ELSE "reload"
    /\ looker' = reload(looker)
    /\ LookerFrame

\* A millisecond passes.
ClockTick ==
    /\ looker.now < MaxClock
    /\ lastOp' = "clockTick"
    /\ looker' = [looker EXCEPT !.now = @ + 1]
    /\ LookerFrame

LookerNext ==
    \/ SetUrl
    \/ Reload
    \/ ClockTick

LookerSpec == Init /\ [][LookerNext]_vars

TypeOK ==
    /\ currentIndex \in 0..(ViewCount - 1)
    /\ isRunning \in BOOLEAN
    /\ isPaused \in BOOLEAN
    /\ intervalId \in TimerIds \cup {NoTimer}
    /\ viewReadyTimeout \in TimerIds \cup {NoTimer}
    /\ intervals \subseteq TimerIds
    /\ timeouts \subseteq TimerIds
    /\ pendingRejects \in 0..MaxPending
    /\ Cardinality(intervals \cup timeouts) <= 1

(* ------------------------------ properties ---------------------------- *)

\* The observed run's law for `n` counted calls: position and callback count.
FollowsSequence(n) ==
    /\ currentIndex = (startIndex + n) % ViewCount
    /\ callbackCalls = n

\* nextView() was called and moved the position.
Advanced ==
    /\ lastOp' \in {"nextView", "intervalTick"}
    /\ currentIndex' # currentIndex

\* C1: while the manager is running and never stopped again, and every armed
\* timer eventually fires, the position changes infinitely often: rotation
\* never stalls for good, whatever the callback and the loaders do.
C1_RotationNeverStalls ==
    <>[]isRunning => []<><<currentIndex' # currentIndex>>_vars

\* Rotation went round: started at the last view, the timer has taken the
\* manager through the Looker view and on to the first ranking view.
C1_Witness ==
    /\ isRunning
    /\ lastOp = "intervalTick"
    /\ startIndex = ViewCount - 1
    /\ advances = 2
    /\ currentIndex = 1

C3_NoAdvanceWhilePaused ==
    [][(isPaused /\ lastOp' \in {"nextView", "intervalTick"}) =>
          /\ UNCHANGED managerState
          /\ isPaused'
          /\ callbackCalls' = callbackCalls
          /\ lastCallback' = "none"
          /\ pendingRejects' = pendingRejects]_vars

\* Two nextView calls were made during a pause and the manager is still paused.
C3_Witness ==
    /\ isRunning
    /\ isPaused
    /\ lastOp = "nextView"
    /\ advances >= 1
    /\ steps = advances + 2
    /\ steps <= MaxSteps

\* The safety timer has fired and resumed the cycle.
ResumedBySafetyTimer ==
    /\ lastOp = "safetyTimeout"
    /\ ~isPaused
    /\ intervalId \in intervals
    /\ timeouts = {}
    /\ currentIndex = 0

\* C4: when nobody calls onViewReady(), a pause for the Looker view ends with
\* the safety timer firing, which clears paused and arms the interval timer
\* again; an interval tick after that advances the position.
C4_BoundedPause ==
    /\ [](isPaused => (isRunning /\ views[currentIndex + 1] = "looker"
                       /\ viewReadyTimeout \in timeouts))
    /\ (isRunning /\ isPaused) ~> ResumedBySafetyTimer
    /\ ResumedBySafetyTimer ~> (lastOp = "intervalTick" /\ currentIndex = 1)

\* The timer went through a Looker pause with a callback that never failed,
\* and moved on to the first ranking view.
C4_Witness ==
    /\ lastOp = "intervalTick"
    /\ runOutcomes = {"ok"}
    /\ startIndex = ViewCount - 1
    /\ advances = 2
    /\ currentIndex = 1

\* C5: a running manager always has a timer armed, the interval timer while
\* not paused and the safety timer while paused; a stopped manager has none.
C5_TimerArmedWhileRunning ==
    /\ isRunning =>
          IF isPaused
          THEN viewReadyTimeout \in timeouts /\ intervals = {}
          ELSE intervalId \in intervals /\ timeouts = {}
    /\ ~isRunning => (intervals = {} /\ timeouts = {})
    /\ isPaused => isRunning

\* Paused after a callback failure was answered and a later Looker activation.
C5_Witness ==
    /\ isRunning
    /\ isPaused
    /\ viewReadyTimeout \in timeouts
    /\ "throw" \in runOutcomes
    /\ "reject" \in runOutcomes

C7_RankingDoesNotPause ==
    /\ [][(Advanced /\ views[currentIndex' + 1] = "ranking") =>
             /\ ~isPaused'
             /\ intervalId' = intervalId
             /\ viewReadyTimeout' = viewReadyTimeout
             /\ intervals' = intervals
             /\ timeouts' = timeouts
             /\ intervalId' \in intervals']_vars
    /\ [][(lastOp' = "intervalTick" /\ views[currentIndex + 1] = "ranking"
           /\ isRunning /\ loads # EmptyBag) =>
             currentIndex' = NextIndex(currentIndex)]_vars
    /\ []((isRunning /\ views[currentIndex + 1] = "ranking") =>
             (~isPaused /\ intervalId \in intervals))

\* The timer moved on from the watched ranking view while its fetch was
\* still awaited.
C7_Witness ==
    /\ lastOp = "intervalTick"
    /\ watched = 1
    /\ currentIndex = 2
    /\ ~isPaused
    /\ \E l \in BagToSet(loads) : l.phase = "fetch"

\* C8 as stated: during a pause the interval timer is armed again only by
\* onViewReady() or by the safety timer.
C8_AsStated ==
    [][(isPaused /\ intervals' # {}) =>
          lastOp' \in {"onViewReady", "safetyTimeout", "callbackRejected"}]_vars

\* C8: activating the Looker view pauses, disarms the interval timer and arms
\* the safety timer (a callback that throws is answered by onViewReady() in
\* the same call); during a pause the interval timer is armed again only by
\* onViewReady(), by the safety timer or by the restart inside setInterval(),
\* and the safety timer is then disarmed; onViewReady() on an unpaused
\* manager changes nothing.
C8_LookerPause ==
    /\ [][(Advanced /\ views[currentIndex' + 1] = "looker" /\ lastCallback' # "throw") =>
             /\ isPaused'
             /\ intervals' = {}
             /\ intervalId' = NoTimer
             /\ viewReadyTimeout' \in timeouts']_vars
    /\ [][(isPaused /\ intervals' # {}) =>
             /\ lastOp' \in {"onViewReady", "safetyTimeout", "callbackRejected",
                             "setInterval"}
             /\ ~isPaused'
             /\ timeouts' = {}]_vars
    /\ [][(~isPaused /\ lastOp' \in {"onViewReady", "safetyTimeout", "callbackRejected"}) =>
             UNCHANGED managerState]_vars
    /\ [](~isPaused => timeouts = {})

\* The loader's signal arrived with the manager on the Looker view and the
\* cycle resumed.
C8_Witness ==
    /\ lastOp = "onViewReady"
    /\ isRunning
    /\ ~isPaused
    /\ views[currentIndex + 1] = "looker"
    /\ intervalId \in intervals
    /\ runOutcomes = {"ok"}
    /\ advances \in 1..MaxSteps
    /\ steps > advances

\* loadRankingView calls that await fetchLeaderboard().
InFetch ==
    BagCardinality([l \in {x \in BagToSet(loads) : x.phase = "fetch"} |-> loads[l]])

\* C9 as stated: once its loads have settled, k activations of the ranking
\* view have issued exactly k fetchLeaderboard calls.
C9_AsStated ==
    (loads = EmptyBag /\ activations <= MaxActivations) => callHistory = activations

\* C9: every load that renders or awaits a ranking has issued its own
\* fetchLeaderboard call; k activations issue at most maxLoadAttempts * k
\* calls, and exactly k, each rendered, when no attempt fails.
C9_FreshFetch ==
    /\ rendered + InFetch <= callHistory
    /\ activations <= MaxActivations => callHistory <= maxLoadAttempts * activations
    /\ (loads = EmptyBag /\ ~anyFailure /\ activations <= MaxActivations)
          => (callHistory = activations /\ rendered = activations)

\* The watched view was activated twice and rendered twice, from two calls.
C9_Witness ==
    /\ loads = EmptyBag
    /\ ~anyFailure
    /\ activations = 2
    /\ callHistory = 2
    /\ rendered = 2

\* C10: after stop() the manager is not running and not paused, no interval
\* timer and no safety timer is armed and both timer fields are null; a
\* stop() right after a stop() changes nothing.
C10_IdempotentStop ==
    /\ [][lastOp' \in {"stop", "stopAgain"} =>
             /\ ~isRunning' /\ ~isPaused'
             /\ intervals' = {} /\ timeouts' = {}
             /\ intervalId' = NoTimer /\ viewReadyTimeout' = NoTimer
             /\ currentIndex' = currentIndex]_vars
    /\ [][lastOp' = "stopAgain" =>
             UNCHANGED << managerState, pendingRejects, callbackCalls >>]_vars

\* stop() was called twice on a manager that had been cycling.
C10_Witness ==
    /\ lastOp = "stopAgain"
    /\ ~isRunning
    /\ steps \in 1..MaxSteps
    /\ intervals = {}
    /\ timeouts = {}

\* C11: on a stopped manager no timer is armed, and an onViewReady() call,
\* a rejection handler, a timer firing or a nextView call left over from
\* before the stop changes nothing: running stays false, the position and
\* the timers are as they were.
C11_NoDanglingCallback ==
    /\ [](~isRunning => (~isPaused /\ intervals = {} /\ timeouts = {}))
    /\ [][(~isRunning /\ lastOp' \in {"onViewReady", "callbackRejected",
                                      "safetyTimeout", "intervalTick", "nextView"}) =>
             UNCHANGED managerState]_vars

\* The rejection of a Looker activation's callback arrived after stop().
C11_Witness ==
    /\ lastOp = "callbackRejected"
    /\ ~isRunning
    /\ "reject" \in runOutcomes
    /\ currentIndex = 0
    /\ advances \in 1..MaxSteps

\* C12: start() on a running manager changes nothing: flags, position and
\* timer fields stay, and the armed interval timer is the one armed before.
C12_StartWhileRunning ==
    [][(isRunning /\ lastOp' = "start") =>
          /\ UNCHANGED managerState
          /\ lastCallback' = "none"
          /\ callbackCalls' = callbackCalls
          /\ pendingRejects' = pendingRejects]_vars

\* start() was called on a manager that is running and paused.
C12_Witness ==
    /\ lastOp = "start"
    /\ isRunning
    /\ isPaused
    /\ viewReadyTimeout \in timeouts
    /\ advances \in 1..MaxSteps

\* C13 as stated: start() on a stopped manager positioned on the Looker view
\* leaves it paused for that view, with the safety timer armed.
C13_AsStated ==
    [][(~isRunning /\ lastOp' = "start" /\ views[currentIndex + 1] = "looker") =>
          (isRunning' /\ isPaused' /\ viewReadyTimeout' \in timeouts')]_vars

\* C13: start() on a stopped manager sets running, clears paused and arms the
\* interval timer; it activates no view and invokes no callback, so the
\* manager is unpaused with no safety timer whatever view it is positioned on.
C13_StartArmsTimer ==
    [][(~isRunning /\ lastOp' = "start") =>
          /\ isRunning' /\ ~isPaused'
          /\ intervalId' \in intervals'
          /\ timeouts' = {}
          /\ viewReadyTimeout' = NoTimer
          /\ currentIndex' = currentIndex
          /\ lastCallback' = "none"]_vars

\* A manager just started while positioned on the Looker view.
C13_Witness ==
    /\ lastOp = "start"
    /\ isRunning
    /\ ~isPaused
    /\ views[currentIndex + 1] = "looker"
    /\ intervalId \in intervals
    /\ steps = 0
    /\ runOutcomes = {}
    /\ callbackCalls = 0

\* C14: nextView() on a manager that is not running changes nothing and
\* invokes no callback; the first nextView() after the start() that began a
\* run advances the position by one (mod len) and invokes the callback once.
C14_NextViewOnlyWhenRunning ==
    /\ [][(~isRunning /\ lastOp' \in {"nextView", "intervalTick"}) =>
             /\ UNCHANGED managerState
             /\ lastCallback' = "none"
             /\ callbackCalls' = callbackCalls
             /\ pendingRejects' = pendingRejects]_vars
    /\ [][(isRunning /\ lastOp = "start" /\ steps = 0 /\ lastOp' = "nextView") =>
             /\ currentIndex' = NextIndex(currentIndex)
             /\ lastCallback' # "none"
             /\ callbackCalls' = 1]_vars

\* A nextView() call on a manager stopped after two advances left it there.
C14_Witness ==
    /\ lastOp = "nextView"
    /\ ~isRunning
    /\ advances = 2
    /\ callbackCalls = 2
    /\ currentIndex = (startIndex + 2) % ViewCount

\* The labels of a watchdog tick, and of those that forced a recovery.
WatchdogOps ==
    {"watchdogTick", "watchdogTickRecovered", "watchdogRecovery", "watchdogRecoveryAgain"}

Recoveries == {"watchdogRecovery", "watchdogRecoveryAgain"}

\* C15: the watchdog tick that finds a running manager on the position it
\* has already counted maxStuckCount - 1 times forces the recovery: after it
\* the interval timer is armed, whether or not the manager was paused, and
\* consecutiveStuckCount is zero; the recovery is forced by no other tick.
C15_WatchdogRecovery ==
    /\ [][(lastOp' \in WatchdogOps /\ Stuck
           /\ consecutiveStuckCount = maxStuckCount - 1) =>
             /\ lastOp' \in Recoveries
             /\ isRunning'
             /\ intervalId' \in intervals'
             /\ currentIndex' = currentIndex
             /\ consecutiveStuckCount' = 0]_vars
    /\ [][lastOp' \in Recoveries =>
             (Stuck /\ consecutiveStuckCount = maxStuckCount - 1)]_vars

\* The recovery was forced during a pause for the Looker view: the interval
\* timer is armed while the safety timer of that pause is still pending.
C15_Witness ==
    /\ lastOp = "watchdogRecovery"
    /\ isRunning
    /\ currentIndex = 0
    /\ viewReadyTimeout \in timeouts
    /\ intervalId \in intervals
    /\ consecutiveStuckCount = 0
    /\ advances \in 1..MaxSteps

\* C16: a watchdog tick raises consecutiveStuckCount, by one, only when the
\* manager is running on lastObservedPosition; a tick that finds another
\* position, or a stopped manager, sets the count to zero and
\* lastObservedPosition to the current position; the count stays below
\* maxStuckCount.
C16_StuckCount ==
    /\ [][lastOp' \in WatchdogOps =>
             /\ consecutiveStuckCount' > consecutiveStuckCount =>
                   (Stuck /\ consecutiveStuckCount' = consecutiveStuckCount + 1)
             /\ currentIndex # lastObservedPosition =>
                   (consecutiveStuckCount' = 0 /\ lastObservedPosition' = currentIndex)
             /\ ~isRunning => consecutiveStuckCount' = 0]_vars
    /\ [](consecutiveStuckCount \in 0..(maxStuckCount - 1))

\* A tick found that the position had moved since a stuck count began.
C16_Witness ==
    /\ lastOp = "watchdogTick"
    /\ isRunning
    /\ consecutiveStuckCount = 0
    /\ lastObservedPosition = currentIndex
    /\ currentIndex = 2
    /\ advances = 2

\* C17: a forced recovery of a manager that is running and not paused leaves
\* position, running and paused as they were and exactly one interval timer
\* armed, the one the manager knows; a recovery that follows a recovery with
\* only watchdog ticks between changes none of these either.
C17_RecoveryIdempotent ==
    /\ [][(lastOp' \in Recoveries /\ ~isPaused) =>
             /\ currentIndex' = currentIndex
             /\ isRunning' /\ ~isPaused'
             /\ Cardinality(intervals') = 1
             /\ intervalId' \in intervals'
             /\ timeouts' = timeouts
             /\ viewReadyTimeout' = viewReadyTimeout]_vars
    /\ [][lastOp' = "watchdogRecoveryAgain" =>
             /\ ~isPaused
             /\ UNCHANGED << currentIndex, isRunning, isPaused, timeouts, viewReadyTimeout >>
             /\ Cardinality(intervals') = Cardinality(intervals)]_vars

\* Two recoveries in a row, on a manager that was cycling.
C17_Witness ==
    /\ lastOp = "watchdogRecoveryAgain"
    /\ isRunning
    /\ ~isPaused
    /\ Cardinality(intervals) = 1
    /\ intervalId \in intervals
    /\ advances \in 1..MaxSteps

\* C18: a fetchLeaderboard call makes at most maxRetries requests; it
\* returns on its first successful request, which is its last; it throws
\* only after exactly maxRetries failed requests, and what it throws is the
\* aggregate of the last failure; a call that returned or threw makes no
\* further request.
C18_BoundedAttempts ==
    /\ [](fetchCall.requests <= maxRetries)
    /\ [](fetchCall.phase = "attempt" => fetchCall.requests = fetchCall.attempt - 1)
    /\ [](fetchCall.phase = "returned" =>
             (fetchCall.requests = fetchCall.attempt /\ fetchCall.thrown = << >>))
    /\ [](fetchCall.phase = "thrown" =>
             /\ fetchCall.requests = maxRetries
             /\ fetchCall.thrown = AggregateMessage(fetchCall.lastError))
    /\ [][(fetchCall.phase \in {"returned", "thrown"} /\ fetchCall' # fetchCall) =>
             (lastOp' = "fetchLeaderboard" /\ fetchCall'.requests = 0)]_vars

\* The second recorded call threw after its third failed request.
C18_Witness ==
    /\ callHistory = 2
    /\ fetchCall.phase = "thrown"
    /\ fetchCall.requests = maxRetries
    /\ handleApiError(fetchCall.lastError).type = "server_error"

\* C19 as stated: classifying the aggregate error of an exhausted
\* fetchLeaderboard call gives the kind and the recoverable flag of the last
\* attempt's own error.
C19_AsStated ==
    fetchCall.phase = "thrown" =>
        /\ handleApiError(fetchCall.thrown).type
              = handleApiError(fetchCall.lastError).type
        /\ handleApiError(fetchCall.thrown).recoverable
              = handleApiError(fetchCall.lastError).recoverable

Navigation == {"nextView", "intervalTick", "setCurrentIndex", "goToView", "goToPrevious"}

\* C24: the position is always a valid index into the view sequence and the
\* view at the position exists, whatever nextView, setCurrentIndex, goToView
\* and goToPrevious calls were made; a setCurrentIndex call with an
\* out-of-range index leaves the position as it was.
C24_PositionInBounds ==
    /\ [](currentIndex \in 0..(ViewCount - 1) /\ (currentIndex + 1) \in DOMAIN views)
    /\ [][lastOp' = "setCurrentIndexOutOfRange" => currentIndex' = currentIndex]_vars

\* An out-of-range setCurrentIndex call was made at the third view.
C24_Witness ==
    /\ lastOp = "setCurrentIndexOutOfRange"
    /\ currentIndex = 2

\* C25 as stated: nothing but nextView() changes the position.
C25_AsStated ==
    [][currentIndex' # currentIndex => lastOp' \in {"nextView", "intervalTick"}]_vars

\* C25: the position is changed only by nextView() and by the manual
\* navigation methods setCurrentIndex, goToView and goToPrevious; start, stop,
\* onViewReady, the safety timeout, a rejected callback and setInterval leave
\* it as it was.
C25_PositionFrame ==
    [][currentIndex' # currentIndex => lastOp' \in Navigation]_vars

\* The interval was reconfigured while running at the last view, and the
\* manager is still there.
C25_Witness ==
    /\ lastOp = "setInterval"
    /\ isRunning
    /\ currentIndex = ViewCount - 1

\* C30: the application state follows the manager: AppState.currentViewIndex
\* equals CycleManager.currentIndex after any sequence of nextView,
\* setCurrentIndex, goToView and goToPrevious calls.
C30_AppStateSynchronized == currentViewIndex = currentIndex

\* goToPrevious() wrapped from the first view to the last, in both objects.
C30_Witness ==
    /\ lastOp = "goToPrevious"
    /\ currentIndex = ViewCount - 1
    /\ currentViewIndex = ViewCount - 1

\* The kinds of the fixed error taxonomy.
Taxonomy ==
    { "timeout", "network", "offline", "not_found", "auth", "rate_limit",
      "server_error", "parse_error", "unknown" }

\* C23: handleApiError answers every error with exactly one kind of the
\* taxonomy; not_found and auth are the only kinds that are not recoverable,
\* and they carry no retry delay; every other kind is recoverable with a
\* positive retry delay; a message that matches none of the tests is unknown.
C23_ClassifierTotal ==
    classified.called =>
        LET info == classified.info
        IN  /\ info.type \in Taxonomy
            /\ info.recoverable = (info.type \notin {"not_found", "auth"})
            /\ info.recoverable => info.retryAfter > 0
            /\ ~info.recoverable => info.retryAfter = 0
            /\ (\A f \in KnownFragments : ~includes(classified.message, f))
                   => info.type = "unknown"

\* A rate-limited request was classified: recoverable, to be retried later.
C23_Witness ==
    /\ classified.called
    /\ classified.message = << "HTTP ", "429" >>
    /\ classified.info.type = "rate_limit"
    /\ classified.info.retryAfter > 0

\* The entries of the followed response that pass isValidPlayer.
ValidEntries == { i \in DOMAIN payload.response : isValidPlayer(payload.response[i]) }

\* C28: for a response array, processPlayerData returns min(valid entries, 10)
\* players, sorted by score in descending order, numbered 1, 2, 3, ... in
\* that order, each with a string playerId and a numeric score.
C28_ProcessedRanking ==
    payload.called =>
        LET result == payload.result
        IN  /\ Len(result) = IF Cardinality(ValidEntries) < TopPlayers
                             THEN Cardinality(ValidEntries)
                             ELSE TopPlayers
            /\ \A i \in DOMAIN result :
                   /\ result[i].position = i
                   /\ result[i].playerId.t = "string"
                   /\ result[i].score.t = "number"
            /\ \A i, j \in DOMAIN result :
                   i < j => result[i].score.n >= result[j].score.n

\* A response with more than ten valid entries, given with the lower scores
\* first, came back as the top ten with the higher scores first.
C28_Witness ==
    /\ payload.called
    /\ Cardinality(ValidEntries) > TopPlayers
    /\ Len(payload.result) = TopPlayers
    /\ payload.response[1].score = Num(50)
    /\ payload.result[1].score = Num(100)
    /\ payload.result[TopPlayers].score = Num(50)

\* An entry exposes an identifier and a numeric score under accepted aliases.
Recoverable(player) ==
    /\ player.object
    /\ \E v \in {player.playerId, player.id} : Truthy(v)
    /\ \E v \in {player.total, player.score, player.current_score} : v.t = "number"

\* C29 as stated: an entry is kept, up to the top-10 limit, if and only if
\* it exposes an identifier under an accepted alias and a numeric score under
\* an accepted alias.
C29_AsStated ==
    payload.called =>
        LET recoverable == { i \in DOMAIN payload.response :
                               Recoverable(payload.response[i]) }
        IN  Len(payload.result) = IF Cardinality(recoverable) < TopPlayers
                                  THEN Cardinality(recoverable)
                                  ELSE TopPlayers

\* The src the last reload set carries the configured URL in front and the
\* timestamp parameter t, read from the clock at that reload, at the end.
StampedSrc ==
    /\ Len(looker.src) = Len(looker.currentUrl) + 3
    /\ SubSeq(looker.src, 1, Len(looker.currentUrl)) = looker.currentUrl
    /\ looker.src[Len(looker.src) - 1] = "t="
    /\ looker.src[Len(looker.src)] = ToString(looker.now)

C22_AsStated ==
    (lastOp = "fetchSettledEmpty" /\ loads = EmptyBag /\ activations <= MaxActivations)
        => container = "empty"

\* C21 as stated: the Looker loader calls cycleManager.onViewReady() for its
\* activation, whether the load was detected or not: when loadLookerView
\* settles, the manager has been told and is no longer paused, with no
\* safety timer pending.
C21_AsStated ==
    [][lastOp' \in {"lookerLoaded", "lookerLoadFailed"} =>
          (~isPaused' /\ viewReadyTimeout' = NoTimer)]_vars

\* C26 as stated: activations never overlap: when an interval tick advances
\* the manager and so begins an activation, no load begun by an earlier
\* activation is still in flight.
C26_AsStated ==
    [][(lastOp' = "intervalTick" /\ currentIndex' # currentIndex) =>
          loads = EmptyBag]_vars

\* C31: in every reachable state of the manager, paused implies running, and
\* while paused no interval timer is armed, so nothing counts toward the next
\* advance.
C31_PausedImpliesRunning ==
    isPaused => (isRunning /\ intervals = {})

\* The interval timer fired, the manager moved to the Looker view and paused:
\* the timer that fired is gone and only the safety timer is left.
C31_Witness ==
    /\ lastOp = "intervalTick"
    /\ isPaused
    /\ isRunning
    /\ views[currentIndex + 1] = "looker"
    /\ intervals = {}
    /\ intervalId = NoTimer

\* C38: the interval timer and the safety timer are never armed together; at
\* most one timer of each kind exists and it is the one the manager's field
\* holds, so no earlier timer is leaked; the safety timer is armed only while
\* paused.
C38_TimerDiscipline ==
    /\ ~(intervals # {} /\ timeouts # {})
    /\ Cardinality(intervals) <= 1
    /\ Cardinality(timeouts) <= 1
    /\ intervals \subseteq {intervalId}
    /\ timeouts \subseteq {viewReadyTimeout}
    /\ timeouts # {} => isPaused

\* The second pause of one run: the manager went round the whole view list
\* and paused on the Looker view again, with the one safety timer its field
\* holds and no interval timer.
C38_Witness ==
    /\ lastOp = "intervalTick"
    /\ isRunning
    /\ isPaused
    /\ startIndex = ViewCount - 1
    /\ advances = ViewCount + 1
    /\ views[currentIndex + 1] = "looker"
    /\ timeouts = {viewReadyTimeout}
    /\ intervals = {}

\* C35 as stated: an onViewReady() call caused by an earlier activation never
\* clears paused or the safety timer of a later Looker activation.  Followed
\* here for a callback promise of an earlier run (no callback of the current
\* run has rejected) whose rejection arrives during a pause of the current
\* run, that is after stop() and start().
C35_AsStated ==
    [][(lastOp' = "callbackRejected" /\ isPaused /\ "reject" \notin runOutcomes) =>
          (isPaused' /\ timeouts' = timeouts)]_vars

\* Steps of the view loaders: loadRankingView and loadLookerView.
LoaderSteps ==
    {"checkNetworkStatus", "fetchSettled", "fetchSettledEmpty", "lookerLoaded",
     "lookerLoadFailed"}

\* The manager's fields and timers after an onViewReady() call.
AfterOnViewReady ==
    LET s == onViewReady(Self)
    IN  << s.currentIndex, s.isRunning, s.isPaused, s.intervalId,
           s.viewReadyTimeout, s.intervals, s.timeouts >>

\* C32: a step of a view loader, whatever its outcome, changes neither the
\* position nor running, and changes paused and the timers, if at all, only
\* as an onViewReady() call does.
C32_LoadersLeaveCycleState ==
    [][lastOp' \in LoaderSteps =>
          /\ currentIndex' = currentIndex
          /\ isRunning' = isRunning
          /\ currentViewIndex' = currentViewIndex
          /\ \/ UNCHANGED managerState
             \/ managerState' = AfterOnViewReady]_vars

\* Both loaders have failed: the ranking view ended in its error placeholder
\* and the Looker load has just failed, with the manager still paused on the
\* Looker view under its safety timer.
C32_Witness ==
    /\ lastOp = "lookerLoadFailed"
    /\ placeholders > 0
    /\ isRunning
    /\ isPaused
    /\ views[currentIndex + 1] = "looker"
    /\ viewReadyTimeout \in timeouts

\* A finite number between 0 and Number.MAX_SAFE_INTEGER.
InScoreRange(v) ==
    /\ v.t = "number"
    /\ IsFinite(v)
    /\ ~LessThan(v, Num(0))
    /\ ~LessThan(MAX_SAFE_INTEGER, v)

\* Inputs without a usable number: null and undefined, NaN and the
\* infinities, negative numbers, values of other types, strings without a
\* digit.
Unusable(v) ==
    \/ v \in {Null, Undefined, NaN, Infinity, NegInfinity, True, EmptyObject}
    \/ v.t = "number" /\ IsFinite(v) /\ LessThan(v, Num(0))
    \/ v.t = "string" /\ v.s \in {"n/a", "abc", "", "-"}

\* C33: for every input sanitizeScore returns a finite number between 0 and
\* Number.MAX_SAFE_INTEGER, and 0 for a negative, NaN, infinite, null or
\* non-numeric input; so every score in what fetchLeaderboard returns is a
\* finite number in that range, never below 0.
C33_ScoreClamped ==
    sanitized.called =>
        /\ InScoreRange(sanitized.output)
        /\ Unusable(sanitized.input) => sanitized.output = Num(0)
        /\ \A i \in DOMAIN sanitized.processed :
               InScoreRange(sanitized.processed[i].score)

\* A score above Number.MAX_SAFE_INTEGER came back as Number.MAX_SAFE_INTEGER,
\* from sanitizeScore and in the player fetchLeaderboard returns.
C33_Witness ==
    /\ sanitized.called
    /\ LessThan(MAX_SAFE_INTEGER, sanitized.input)
    /\ sanitized.output = MAX_SAFE_INTEGER
    /\ Len(sanitized.processed) = 1
    /\ sanitized.processed[1].score = MAX_SAFE_INTEGER

\* C34: after failed attempt k, k < maxRetries, fetchLeaderboard waits
\* 1000 * k ms and only then begins attempt k + 1, so each wait of a call is
\* strictly longer than the one before; the final failed attempt is followed
\* by no wait: the aggregate error is thrown in the same step.
C34_BackoffIncreases ==
    /\ [](\A k \in DOMAIN fetchCall.waits :
             /\ fetchCall.waits[k] = BackoffUnit * k
             /\ k > 1 => fetchCall.waits[k] > fetchCall.waits[k - 1])
    /\ [](fetchCall.phase = "attempt" => Len(fetchCall.waits) = fetchCall.attempt - 1)
    /\ [](fetchCall.phase = "waiting" =>
             (fetchCall.attempt < maxRetries /\ Len(fetchCall.waits) = fetchCall.attempt))
    /\ [](fetchCall.phase = "thrown" => Len(fetchCall.waits) = maxRetries - 1)
    /\ [][lastOp' = "apiCallThrew" =>
             IF fetchCall.attempt < maxRetries
             THEN /\ fetchCall'.phase = "waiting"
                  /\ fetchCall'.waits = Append(fetchCall.waits, BackoffUnit * fetchCall.attempt)
             ELSE /\ fetchCall'.phase = "thrown"
                  /\ fetchCall'.waits = fetchCall.waits]_vars
    /\ [][fetchCall'.attempt = fetchCall.attempt + 1 =>
             (fetchCall.phase \in {"idle", "waiting"} /\ fetchCall'.phase = "attempt")]_vars

\* A call that failed three times: it waited 1000 ms and then 2000 ms, and
\* threw after the third failure without a third wait.
C34_Witness ==
    /\ lastOp = "apiCallThrew"
    /\ fetchCall.phase = "thrown"
    /\ fetchCall.requests = maxRetries
    /\ fetchCall.waits = << BackoffUnit, 2 * BackoffUnit >>

\* The awaits a loadRankingView call in flight has left at most: two for
\* each load attempt (the network check, the fetch).
RemainingAwaits(l) ==
    2 * (maxLoadAttempts - l.loadAttempts) + (IF l.phase = "check" THEN 2 ELSE 1)

\* ... summed over the loads in flight.
TotalRemaining(bag) ==
    LET ls == BagToSet(bag)
        Sum[S \in SUBSET ls] ==
            IF S = {} THEN 0
            ELSE LET l == CHOOSE x \in S : TRUE
                 IN  bag[l] * RemainingAwaits(l) + Sum[S \ {l}]
    IN  Sum[ls]

\* C39: the load of a ranking activation terminates.  It makes at most
\* maxLoadAttempts attempts; every step of a load uses up one of the awaits it
\* has left, 2 * maxLoadAttempts at most; a load that ends has rendered its
\* ranking or the error placeholder and leaves nothing behind; and once n
\* activations have begun, n loads eventually have ended.
C39_LoadTerminates ==
    /\ [](\A l \in BagToSet(loads) : l.loadAttempts \in 1..maxLoadAttempts)
    /\ [][lastOp' \in {"checkNetworkStatus", "fetchSettled", "fetchSettledEmpty"} =>
             /\ TotalRemaining(loads') < TotalRemaining(loads)
             /\ BagCardinality(loads') < BagCardinality(loads) =>
                   (rendered' + placeholders' = rendered + placeholders + 1)]_vars
    /\ [](BagCardinality(loads) + rendered + placeholders
             = IF activations > MaxActivations THEN MaxActivations ELSE activations)
    /\ \A n \in 1..MaxActivations :
          (activations >= n) ~> (rendered + placeholders >= n)

\* A load that used all its attempts: it failed three times, the error
\* placeholder is shown and no load is in flight.
C39_Witness ==
    /\ lastOp \in {"checkNetworkStatus", "fetchSettled", "fetchSettledEmpty"}
    /\ activations = 1
    /\ placeholders = 1
    /\ rendered = 0
    /\ container = "error"
    /\ loads = EmptyBag

\* C36 as stated: the completion of a view's load never leaves a view other
\* than the one at the manager's position on screen, so once no load is in
\* flight the view shown is the view at position.
C36_AsStated ==
    /\ [][lastOp' \in {"viewShown", "appStarted"} => display'.active = {currentIndex'}]_vars
    /\ []((isRunning /\ display.pending = {}) => display.active = {currentIndex})

\* C37 as stated: after the page was hidden and is visible again, the cycle
\* manager is running again with its interval timer armed, unless the page
\* is hidden once more before that.
C37_AsStated ==
    (lastOp = "pageVisible") ~> (app.hidden \/ (isRunning /\ intervalId \in intervals))
====
